---- MODULE Spec2Model ----
(***************************************************************************)
(* A model of the ptrace sandbox of BuildXL                                *)
(* (Public/Src/Sandbox/Linux/PTraceSandbox.cpp): the tracee bootstrap      *)
(* ExecuteWithPTraceSandbox, the tracer AttachToProcess with its event     *)
(* loop, the process table, and the syscall handlers.  The kernel and the  *)
(* traced processes are the environment: they produce the stops the        *)
(* tracer waits for.  The sink (BxlObserver) is a log of the calls made    *)
(* to it.                                                                  *)
(***************************************************************************)
EXTENDS Integers, Sequences, FiniteSets, TLC

(***************************************************************************)
(* Bounds of the model.                                                    *)
(***************************************************************************)
\* pids the kernel can hand out to the traced tree: 1 (the bootstrap) .. MaxPid
MaxPid == 3
\* system calls the traced tree issues in one run of a small program
MaxCalls == 2
\* system calls issued in one run of a program with a large menu (every open
\* variant, or every syscall of the filter)
MaxDispatchCalls == 1
\* largest errno a failing directory syscall leaves (as -errno) in rax
MaxErrno == 3

(***************************************************************************)
(* Program constants (values of the names the source uses).                *)
(***************************************************************************)
O_WRONLY == 1
O_RDWR == 2
O_ACCMODE == 3
O_CREAT == 64
O_TRUNC == 512
O_NOFOLLOW == 131072
AT_SYMLINK_NOFOLLOW == 256
AT_REMOVEDIR == 512
AT_SYMLINK_FOLLOW == 1024
S_IFLNK == 40960
S_IFDIR == 16384
S_IFREG == 32768
AT_FDCWD == -100
SIGTRAP == 5
\* bit 7 of the stop signal, set by PTRACE_O_TRACESYSGOOD on syscall stops
SYSGOOD == 128
\* rax at syscall entry, before the syscall has run
ENOSYS == 38

Root == 1
Pids == 1..MaxPid

(***************************************************************************)
(* Bit operations on naturals (C's & and |).                               *)
(***************************************************************************)
RECURSIVE BitAnd(_, _)
BitAnd(a, b) ==
    IF a = 0 \/ b = 0 THEN 0
    ELSE (a % 2) * (b % 2) + 2 * BitAnd(a \div 2, b \div 2)

RECURSIVE BitOr(_, _)
BitOr(a, b) ==
    IF a = 0 THEN b
    ELSE IF b = 0 THEN a
    ELSE (IF a % 2 = 1 \/ b % 2 = 1 THEN 1 ELSE 0) + 2 * BitOr(a \div 2, b \div 2)

\* a C comparison used as an integer operand
CBool(b) == IF b THEN 1 ELSE 0

(***************************************************************************)
(* 64-bit machine words as four 16-bit limbs, least significant first.     *)
(***************************************************************************)
Limb == 65536

\* the two's-complement 64-bit pattern of a small integer v, |v| < 65536
ToWord(v) ==
    IF v >= 0 THEN <<v, 0, 0, 0>>
    ELSE <<Limb + v, Limb - 1, Limb - 1, Limb - 1>>

AllOnes == <<Limb - 1, Limb - 1, Limb - 1, Limb - 1>>

\* a - b modulo 2^64 (unsigned long subtraction), limb by limb with borrow
RECURSIVE SubLimbs(_, _, _, _)
SubLimbs(a, b, i, borrow) ==
    IF i > 4 THEN <<>>
    ELSE LET d == a[i] - b[i] - borrow
         IN  <<IF d < 0 THEN d + Limb ELSE d>> \o SubLimbs(a, b, i + 1, IF d < 0 THEN 1 ELSE 0)

SubWord(a, b) == SubLimbs(a, b, 1, 0)

\* narrowing an unsigned long to int: the low 32 bits, read as signed
WordToInt(w) ==
    IF w[2] >= Limb \div 2 THEN (w[2] - Limb) * Limb + w[1]
    ELSE w[2] * Limb + w[1]

\* GetErrno's arithmetic on the value read from rax:
\*   return (returnValue == 0 ? 0 : 0xffffffffffffffffUL - returnValue);
GetErrnoOf(returnValue) ==
    IF returnValue = 0 THEN 0
    ELSE WordToInt(SubWord(AllOnes, ToWord(returnValue)))

(***************************************************************************)
(* ReportOpen's classification of an open (lines 532-541).                 *)
(***************************************************************************)
\* `oflag & O_ACCMODE == O_WRONLY` parses as `oflag & (O_ACCMODE == O_WRONLY)`:
\* == binds tighter than &.
ReportOpenIsWrite(pathMode, oflag) ==
    LET pathExists == pathMode # 0
    IN  pathExists
        /\ (BitAnd(oflag, BitOr(O_CREAT, O_TRUNC)) # 0
            /\ (BitAnd(oflag, CBool(O_ACCMODE = O_WRONLY)) # 0
                \/ BitAnd(oflag, CBool(O_ACCMODE = O_RDWR)) # 0))

ReportOpenIsCreateMutNoTrunc(pathMode, oflag) ==
    pathMode = 0 /\ BitAnd(oflag, O_CREAT) # 0

ReportOpenIsCreate(pathMode, oflag) ==
    LET pathExists == pathMode # 0
    IN  ~pathExists /\ BitAnd(oflag, BitOr(O_CREAT, O_TRUNC)) # 0

ReportOpenKind(pathMode, oflag) ==
    IF ReportOpenIsCreate(pathMode, oflag) THEN "NOTIFY_CREATE"
    ELSE IF ReportOpenIsWrite(pathMode, oflag) THEN "NOTIFY_WRITE"
    ELSE "NOTIFY_OPEN"

(***************************************************************************)
(* System calls.  A syscall number is written by its name: __NR_<name>,    *)
(* the token the macros SYSCALL_NAME_TO_NUMBER paste into the filter and   *)
(* into the dispatch switch.                                               *)
(***************************************************************************)
\* the seccomp filter of ExecuteWithPTraceSandbox, in table order (lines 67-117)
FilterTable ==
    << "execveat", "execve", "stat", "lstat", "fstat", "newfstatat", "access",
       "faccessat", "creat", "open", "openat", "write", "writev", "pwritev",
       "pwritev2", "pwrite64", "truncate", "ftruncate", "rmdir", "rename",
       "renameat", "renameat2", "link", "linkat", "unlink", "unlinkat",
       "symlink", "symlinkat", "readlink", "readlinkat", "utime", "utimes",
       "utimensat", "futimesat", "mkdir", "mkdirat", "mknod", "mknodat",
       "chmod", "fchmod", "fchmodat", "chown", "fchown", "lchown", "fchownat",
       "sendfile", "copy_file_range", "name_to_handle_at", "fork", "clone" >>

\* the filter program run on a syscall number: the first matching equality
\* test returns SECCOMP_RET_TRACE, the last statement SECCOMP_RET_ALLOW
RECURSIVE RunFilterMutSkipLast(_, _)
RunFilterMutSkipLast(nr, i) ==
    IF i >= Len(FilterTable) THEN "SECCOMP_RET_ALLOW"
    ELSE IF FilterTable[i] = nr THEN "SECCOMP_RET_TRACE"
    ELSE RunFilterMutSkipLast(nr, i + 1)

RECURSIVE RunFilter(_, _)
RunFilter(nr, i) ==
    IF i > Len(FilterTable) THEN "SECCOMP_RET_ALLOW"
    ELSE IF FilterTable[i] = nr THEN "SECCOMP_RET_TRACE"
    ELSE RunFilter(nr, i + 1)

Surfaced(nr) == RunFilter(nr, 1) = "SECCOMP_RET_TRACE"

\* the case labels of HandleSysCallGeneric's switch (lines 472-520)
DispatchCases ==
    { "execveat", "execve", "stat", "lstat", "fstat", "newfstatat", "access",
      "faccessat", "creat", "open", "openat", "write", "writev", "pwritev",
      "pwritev2", "pwrite64", "truncate", "ftruncate", "rmdir", "rename",
      "renameat", "link", "linkat", "unlink", "unlinkat",
      "symlink", "symlinkat", "readlink", "readlinkat", "utime", "utimes",
      "utimensat", "futimesat", "mkdir", "mkdirat", "mknod", "mknodat",
      "chmod", "fchmod", "fchmodat", "chown", "fchown", "lchown", "fchownat",
      "sendfile", "copy_file_range", "name_to_handle_at", "fork", "clone" }

\* HandleSysCallGeneric: the handlers (Handle<name>) the switch calls for a
\* syscall number; the default arm calls none
HandleSysCallGenericMutDefaultRenameat(syscallNumber) ==
    IF syscallNumber \in DispatchCases THEN <<syscallNumber>> ELSE <<"renameat">>

HandleSysCallGeneric(syscallNumber) ==
    IF syscallNumber \in DispatchCases THEN <<syscallNumber>> ELSE <<>>

\* handlers that resume the tracee and wait for it before they report
WaitingHandlers == {"mkdir", "mkdirat", "rmdir", "fork", "clone"}
DirHandlers == {"mkdir", "mkdirat", "rmdir"}
ExecHandlers == {"execve", "execveat"}
OpenHandlers == {"open", "openat", "creat"}

(***************************************************************************)
(* Paths are sequences of components; an absolute path starts with the     *)
(* component "/".  The empty path is << >>.                                *)
(***************************************************************************)
IsAbsolute(path) == path # <<>> /\ path[1] = "/"

\* std::string::replace(0, n, new) on a path whose first n components are old
ReplacePrefix(path, n, new) == new \o SubSeq(path, n + 1, Len(path))

(***************************************************************************)
(* Tracee memory and registers.  A syscall invocation is its number and    *)
(* the six argument registers rdi, rsi, rdx, r10, r8, r9; a string         *)
(* argument is an address into TraceeMemory.                               *)
(***************************************************************************)
TraceeMemory ==
    << <<"/", "bin", "ls">>, <<"/", "d", "x">>, <<"/", "a">>, <<"rel">>, <<>>,
       <<"x">>, <<"/", "d">> >>

AddrOf(s) == CHOOSE a \in DOMAIN TraceeMemory : TraceeMemory[a] = s

\* an address of the tracee at which nothing is mapped
UnmappedAddr == 99

ReadArgumentStringAtAddrMutFaultReadsOn(addr) ==
    IF addr \in DOMAIN TraceeMemory THEN TraceeMemory[addr] ELSE TraceeMemory[1]

\* PTRACE_PEEKTEXT word by word up to the NUL; a fault ends the read with
\* what was accumulated (nothing, at an unmapped start address)
ReadArgumentStringAtAddr(addr) ==
    IF addr \in DOMAIN TraceeMemory THEN TraceeMemory[addr] ELSE <<>>

Invocation(nr, a1, a2, a3, a4, a5, a6) == [nr |-> nr, regs |-> <<a1, a2, a3, a4, a5, a6>>]

NoSyscall == Invocation("none", 0, 0, 0, 0, 0, 0)

(***************************************************************************)
(* State.                                                                  *)
(***************************************************************************)
VARIABLES
    \* --- the tracer (class PTraceSandbox and the position in AttachToProcess)
    tpc,            \* "seize", "interrupt", "resume", "sem_open", "sem_post",
                    \* "loop" (blocked in wait, line 232), "hwait", "hwait2"
                    \* (blocked in a handler's waitpid), "exit0", "exitfail"
    m_traceePid,
    m_traceeTable,  \* sequence of <<pid, exe path>>
    hctx,           \* a waiting handler's locals: syscall, path, dirfd
    events,         \* the calls made to the sink m_bxl, in order
    dispatch,       \* the last classifier stop: the number read and the handlers called
    \* --- the bootstrap (ExecuteWithPTraceSandbox, running as process Root)
    bpc,            \* "sem_open", "clock", "sem_wait", "sem_close", "no_new_privs",
                    \* "set_seccomp", "execvpe", "in_exec", "image", "exited", "returned"
    waitResult,
    \* --- the named semaphore "/<pid>"
    sem,            \* [linked, made, count, bsem, tsem]
    \* --- the kernel and the traced processes
    proc,           \* per pid: phase, held, pend, stepping, sys, rax, seq, ran, ...,
                    \* sig (the signal the last resume passed on)
    attached,       \* PTRACE_SEIZE took effect and the tracer lives
    quota,          \* syscalls the traced tree may still issue
    menu,           \* the syscall invocations the target program may issue
    fsys,           \* the file system as get_mode sees it: path -> mode
    reportingArgs,  \* IsReportingProcessArgs()
    \* --- one call of ReadArgumentStringAtAddr, byte by byte
    reading         \* [pc, mem, start, nullTerminated, length, addr, argument, faulted]

vars == << tpc, m_traceePid, m_traceeTable, hctx, events, dispatch, bpc, waitResult,
           sem, proc, attached, quota, menu, fsys, reportingArgs, reading >>

tracerVars == << tpc, m_traceePid, m_traceeTable, hctx, events, dispatch >>
bootVars == << bpc, waitResult >>
envVars == << quota, menu, fsys, reportingArgs, reading >>
programVars == << tpc, m_traceePid, m_traceeTable, hctx, events, dispatch, bpc, waitResult,
                  sem, proc, attached, quota, menu, fsys, reportingArgs >>

(***************************************************************************)
(* The kernel's view of a traced process.                                  *)
(***************************************************************************)
StopPhases ==
    { "trap_stop", "entry_stop", "seccomp_stop", "fork_stop", "clone_stop",
      "vfork_stop", "sysexit_stop", "exit_stop" }
LivePhases == StopPhases \cup {"user", "kernel", "vfwait"}

Unborn ==
    [ phase |-> "unborn", held |-> FALSE, pend |-> FALSE, stepping |-> FALSE,
      intr |-> FALSE, sys |-> NoSyscall, rax |-> 0, seq |-> 0, ran |-> 0,
      parent |-> 0, vf |-> FALSE, killed |-> FALSE, sig |-> 0, born |-> "none" ]

\* the status wait/waitpid returns for a process: WIFEXITED/WIFSIGNALED/WIFSTOPPED,
\* WSTOPSIG(status), and the event number status >> 16
WaitStatus(p) ==
    LET ph == proc[p].phase
    IN  IF ph = "zombie"
        THEN [ kind |-> IF proc[p].killed THEN "SIGNALED" ELSE "EXITED",
               stopsig |-> 0, event |-> "NONE" ]
        ELSE [ kind |-> "STOPPED",
               stopsig |-> IF ph \in {"entry_stop", "sysexit_stop"} THEN SIGTRAP + SYSGOOD
                           ELSE SIGTRAP,
               event |-> CASE ph = "seccomp_stop" -> "PTRACE_EVENT_SECCOMP"
                           [] ph = "fork_stop" -> "PTRACE_EVENT_FORK"
                           [] ph = "clone_stop" -> "PTRACE_EVENT_CLONE"
                           [] ph = "vfork_stop" -> "PTRACE_EVENT_VFORK"
                           [] ph = "exit_stop" -> "PTRACE_EVENT_EXIT"
                           [] ph = "trap_stop" -> "PTRACE_EVENT_STOP"
                           [] OTHER -> "NONE" ]

\* status >> 8 == (SIGTRAP | (PTRACE_EVENT_x << 8))
IsEventStop(status, ev) ==
    status.kind = "STOPPED" /\ status.stopsig = SIGTRAP /\ status.event = ev

\* the process stops in a ptrace-stop and the stop becomes waitable
StopAt(pr, phase) == [pr EXCEPT !.phase = phase, !.held = TRUE, !.pend = TRUE]

\* return to user mode after a syscall: a syscall-exit-stop when the tracee
\* was resumed with PTRACE_SYSCALL
AfterSyscall(pr) ==
    IF pr.stepping THEN StopAt(pr, "sysexit_stop") ELSE [pr EXCEPT !.phase = "user"]

\* ptrace(PTRACE_SYSCALL or PTRACE_CONT, p, NULL, data): resumes a tracee that
\* is in a ptrace-stop, passing on the signal data (0: none); fails (ESRCH,
\* unchecked by the tracer) otherwise
PtraceResumeSignal(pr, request, data) ==
    IF pr.held
    THEN [pr EXCEPT !.held = FALSE, !.pend = FALSE,
                    !.stepping = (request = "PTRACE_SYSCALL"),
                    !.sig = data]
    ELSE pr

PtraceResumeMutSetRegs(pr, request) ==
    IF pr.held
    THEN [pr EXCEPT !.held = FALSE, !.pend = FALSE,
                    !.stepping = (request = "PTRACE_SYSCALL"),
                    !.sys = [@ EXCEPT !.regs = <<0, 0, 0, 0, 0, 0>>]]
    ELSE pr

\* the same with data = 0 (NULL)
PtraceResume(pr, request) == PtraceResumeSignal(pr, request, 0)

\* the registers of the six syscall arguments, in argument order
ArgumentRegisters == <<"RDI", "RSI", "RDX", "R10", "R8", "R9">>

\* GetArgumentAddr: the register at the offset sizeof(long) * <REG> of the user
\* area; the default arm gives offset 0, where R15 is
GetArgumentAddr(index) ==
    CASE index = 0 -> "RAX"
      [] index \in 1..6 -> ArgumentRegisters[index]
      [] OTHER -> "R15"

\* ArgumentIndexToRegister: the same choice on a user_regs_struct; the
\* default arm returns 0
ArgumentIndexToRegister(index) ==
    IF index \in 0..6 THEN GetArgumentAddr(index) ELSE "none"

\* ptrace(PTRACE_PEEKUSER, p, GetArgumentAddr(index)): the register, or -1
\* when the tracee is not in a ptrace-stop (R15 is not a syscall argument and
\* reads as 0)
ReadArgumentLong(p, argumentIndex) ==
    IF p \in Pids /\ proc[p].held
    THEN LET addr == GetArgumentAddr(argumentIndex)
         IN  IF addr = "RAX" THEN proc[p].rax
             ELSE IF addr = "R15" THEN 0
             ELSE proc[p].sys.regs[CHOOSE i \in 1..6 : ArgumentRegisters[i] = addr]
    ELSE -1

ReadArgumentString(p, argumentIndex) ==
    ReadArgumentStringAtAddr(ReadArgumentLong(p, argumentIndex))

GetErrno(p) == GetErrnoOf(ReadArgumentLong(p, 0))

(***************************************************************************)
(* The sink m_bxl (BxlObserver).  Its queries are functions of the file    *)
(* system view fsys; its report calls are recorded in events.              *)
(***************************************************************************)
Cwd == <<"/", "cwd">>

KnownPaths ==
    << <<"/", "d">>, <<"/", "d", "x">>, <<"/", "a">>, <<"/", "cwd", "rel">>,
       <<"/", "bin", "ls">> >>

KnownPathSet == { KnownPaths[i] : i \in DOMAIN KnownPaths }

get_mode(path) == IF path \in DOMAIN fsys THEN fsys[path] ELSE 0

\* file descriptors of the target: 3 and 4 are files, 5 is a pipe, 9 is closed
PipeFd == 5
ClosedFd == 9

\* /proc/<pid>/fd/<fd>: a file's absolute path, or type:[inode] for a pipe
fd_to_path(fd) ==
    CASE fd = 3 -> <<"/", "d">>
      [] fd = 4 -> <<"/", "a">>
      [] fd = PipeFd -> <<"pipe:[7]">>
      [] OTHER -> <<>>

normalize_path(path) == IF IsAbsolute(path) THEN path ELSE Cwd \o path

normalize_path_at(dirfd, path) ==
    IF IsAbsolute(path) \/ dirfd = AT_FDCWD THEN normalize_path(path)
    ELSE fd_to_path(dirfd) \o path

GetProgramPath == <<"/", "proc", "self", "exe">>

\* the entries below a directory, in the order of KnownPaths
RECURSIVE EnumerateFrom(_, _)
EnumerateFrom(dir, i) ==
    IF i > Len(KnownPaths) THEN <<>>
    ELSE LET q == KnownPaths[i]
             below == /\ Len(q) > Len(dir)
                      /\ SubSeq(q, 1, Len(dir)) = dir
                      /\ get_mode(q) # 0
         IN  (IF below THEN <<q>> ELSE <<>>) \o EnumerateFrom(dir, i + 1)

EnumerateDirectory(dir) == EnumerateFrom(dir, 1)

\* one call made to the sink
SinkCall(fn, syscall, kind, pid, cpid, path, dest, mode, oflags, error, cache, dirfd, seq) ==
    [ fn |-> fn, syscall |-> syscall, kind |-> kind, pid |-> pid, cpid |-> cpid,
      path |-> path, dest |-> dest, mode |-> mode, oflags |-> oflags,
      error |-> error, cache |-> cache, dirfd |-> dirfd, seq |-> seq ]

\* report_access(syscall, IOEvent [, checkCache])
ReportEvent(syscall, kind, pid, cpid, path, mode, error, cache, seq) ==
    SinkCall("report_access_event", syscall, kind, pid, cpid, path, <<>>, mode, 0, error, cache, 0, seq)

\* report_access(syscall, type, pathname, mode, oflags, error, checkCache, pid)
ReportPath(syscall, kind, pid, path, mode, oflags, error, cache, seq) ==
    SinkCall("report_access_path", syscall, kind, pid, 0, path, <<>>, mode, oflags, error, cache, 0, seq)

\* report_access(syscall, type, reportPath, secondPath, mode, error, checkCache, pid)
ReportPaths(syscall, kind, pid, path, dest, mode, error, cache, seq) ==
    SinkCall("report_access_paths", syscall, kind, pid, 0, path, dest, mode, 0, error, cache, 0, seq)

\* report_access_at(syscall, type, dirfd, pathname, oflags, getModeWithFd, pid, error)
ReportAt(syscall, kind, pid, dirfd, path, oflags, seq) ==
    SinkCall("report_access_at", syscall, kind, pid, 0, path, <<>>, 0, oflags, 0, "default", dirfd, seq)

(***************************************************************************)
(* Report helpers of PTraceSandbox.  Each gives the sink calls it makes.   *)
(***************************************************************************)
ReportOpen(path, oflag, syscallName, p, seq) ==
    LET pathMode == get_mode(path)
    IN  << ReportEvent(syscallName, ReportOpenKind(pathMode, oflag), p, 0, path,
                       pathMode, 0, "default", seq) >>

ReportCreate(syscallName, dirfd, pathname, mode, returnValue, checkCache, p, seq) ==
    << ReportEvent(syscallName, "NOTIFY_CREATE", p, 0, normalize_path_at(dirfd, pathname),
                   mode, returnValue, checkCache, seq) >>

HandleReportAccessFdMutNoTest(syscall, fd, kind, p, seq) ==
    << ReportPaths(syscall, kind, p, fd_to_path(fd), <<>>, 0, 0, "true", seq) >>

HandleReportAccessFd(syscall, fd, kind, p, seq) ==
    LET path == fd_to_path(fd)
    IN  IF IsAbsolute(path)
        THEN << ReportPaths(syscall, kind, p, path, <<>>, 0, 0, "true", seq) >>
        ELSE << >>

RECURSIVE RenameEntries(_, _, _, _, _, _)
RenameEntries(entries, syscall, oldStr, newStr, p, seq) ==
    IF entries = <<>> THEN <<>>
    ELSE LET fileOrDirectory == Head(entries)
         IN  << ReportPath(syscall, "NOTIFY_UNLINK", p, fileOrDirectory,
                           get_mode(fileOrDirectory), O_NOFOLLOW, 0, "true", seq) >>
             \o ReportOpen(ReplacePrefix(fileOrDirectory, Len(oldStr), newStr), O_CREAT,
                           syscall, p, seq)
             \o RenameEntries(Tail(entries), syscall, oldStr, newStr, p, seq)

HandleRenameGeneric(syscall, olddirfd, oldpath, newdirfd, newpath, p, seq) ==
    LET oldStr == normalize_path_at(olddirfd, oldpath)
        newStr == normalize_path_at(newdirfd, newpath)
        mode == get_mode(oldStr)
    IN  IF mode = S_IFDIR
        THEN RenameEntries(EnumerateDirectory(oldStr), syscall, oldStr, newStr, p, seq)
        ELSE << ReportPath(syscall, "NOTIFY_UNLINK", p, oldStr, mode, O_NOFOLLOW, 0, "true", seq) >>
             \o ReportOpen(newStr, O_CREAT, syscall, p, seq)

(***************************************************************************)
(* The process table.                                                      *)
(***************************************************************************)
\* FindProcess: the index of the first entry of the pid, 0 for end()
FindProcess(table, pid) ==
    IF \E i \in DOMAIN table : table[i][1] = pid
    THEN CHOOSE i \in DOMAIN table :
            table[i][1] = pid /\ \A j \in DOMAIN table : table[j][1] = pid => i <= j
    ELSE 0

InTable(table, pid) == FindProcess(table, pid) # 0

\* std::remove_if + erase of every entry of the pid
RECURSIVE RemovePid(_, _)
RemovePid(table, pid) ==
    IF table = <<>> THEN <<>>
    ELSE (IF Head(table)[1] = pid THEN <<>> ELSE <<Head(table)>>) \o RemovePid(Tail(table), pid)

\* UpdateTraceeTableForExec: the new table and the sink calls made
UpdateTraceeTableForExecMutNoPush(table, exePath, p, seq) ==
    LET i == FindProcess(table, p)
    IN  IF i # 0
        THEN [ table |-> [table EXCEPT ![i] = <<p, exePath>>], calls |-> <<>> ]
        ELSE [ table |-> table,
               calls |-> << ReportEvent("vfork", "NOTIFY_FORK", p, p, exePath, 0, 0, "false", seq) >> ]

UpdateTraceeTableForExecMutNoFork(table, exePath, p, seq) ==
    LET i == FindProcess(table, p)
    IN  IF i # 0
        THEN [ table |-> [table EXCEPT ![i] = <<p, exePath>>], calls |-> <<>> ]
        ELSE [ table |-> Append(table, <<p, exePath>>), calls |-> <<>> ]

\* UpdateTraceeTableForExec leaving the path of an entry it has found
UpdateTraceeTableForExecMutKeepPath(table, exePath, p, seq) ==
    LET i == FindProcess(table, p)
    IN  IF i # 0
        THEN [ table |-> table, calls |-> <<>> ]
        ELSE [ table |-> Append(table, <<p, exePath>>),
               calls |-> << ReportEvent("vfork", "NOTIFY_FORK", p, p, exePath, 0, 0, "false", seq) >> ]

UpdateTraceeTableForExec(table, exePath, p, seq) ==
    LET i == FindProcess(table, p)
    IN  IF i # 0
        THEN [ table |-> [table EXCEPT ![i] = <<p, exePath>>], calls |-> <<>> ]
        ELSE [ table |-> Append(table, <<p, exePath>>),
               calls |-> << ReportEvent("vfork", "NOTIFY_FORK", p, p, exePath, 0, 0, "false", seq) >> ]

\* basename(path)
Basename(path) == IF path = <<>> THEN <<".">> ELSE <<path[Len(path)]>>

\* the argv / envp arrays of tracee memory: address -> addresses of the strings
ArgvMemory == [a \in {11} |-> <<1, 3>>]

RECURSIVE JoinArgs(_, _)
JoinArgs(ptrs, first) ==
    IF ptrs = <<>> THEN <<>>
    ELSE (IF first THEN <<>> ELSE <<" ">>) \o ReadArgumentStringAtAddr(Head(ptrs))
         \o JoinArgs(Tail(ptrs), FALSE)

ReadArgumentVector(p, argumentIndex) ==
    LET addr == ReadArgumentLong(p, argumentIndex)
    IN  IF addr \in DOMAIN ArgvMemory THEN JoinArgs(ArgvMemory[addr], TRUE) ELSE <<>>

\* report_exec, then report_exec_args when the sink asks for them
ExecReports(syscall, exePath, argvIndex, p, seq) ==
    << SinkCall("report_exec", syscall, "EXEC", p, 0, exePath, Basename(exePath), 0, 0, 0,
                "default", 0, seq) >>
    \o (IF reportingArgs
        THEN << SinkCall("report_exec_args", syscall, "EXEC_ARGS", p, 0,
                         ReadArgumentVector(p, argvIndex), <<>>, 0, 0, 0, "default", 0, seq) >>
        ELSE << >>)

\* the path a exec handler resolves: execve reports the string as read,
\* execveat normalizes it against dirfd
ExecPath(nr, p) ==
    IF nr = "execve" THEN ReadArgumentString(p, 1)
    ELSE normalize_path_at(ReadArgumentLong(p, 1), ReadArgumentString(p, 2))

(***************************************************************************)
(* The handlers that report at the classifier stop (HANDLER_FUNCTION(x)),  *)
(* except exec: the sink calls Handle<nr> makes for tracee p.              *)
(***************************************************************************)
\* HANDLER_FUNCTION(unlinkat) on the arguments it has read
HandleunlinkatMutNoPathTest(dirfd, path, flags, p, seq) ==
    IF dirfd # AT_FDCWD
    THEN << ReportAt("unlinkat", "NOTIFY_UNLINK", p, dirfd, path,
                     IF BitAnd(flags, AT_REMOVEDIR) # 0 THEN 0 ELSE O_NOFOLLOW, seq) >>
    ELSE << >>

Handleunlinkat(dirfd, path, flags, p, seq) ==
    IF dirfd # AT_FDCWD /\ path # <<>>
    THEN << ReportAt("unlinkat", "NOTIFY_UNLINK", p, dirfd, path,
                     IF BitAnd(flags, AT_REMOVEDIR) # 0 THEN 0 ELSE O_NOFOLLOW, seq) >>
    ELSE << >>

NoFollowIf(flags, bit) == IF BitAnd(flags, bit) # 0 THEN O_NOFOLLOW ELSE 0

HandlerCalls(nr, p, seq) ==
    LET L(i) == ReadArgumentLong(p, i)
        S(i) == ReadArgumentString(p, i)
    IN
    CASE nr \in {"stat", "lstat"} ->
            << ReportPath(nr, "NOTIFY_STAT", p, S(1), 0, O_NOFOLLOW, 0, "true", seq) >>
      [] nr = "fstat" -> HandleReportAccessFd(nr, L(1), "NOTIFY_STAT", p, seq)
      [] nr = "newfstatat" -> << ReportAt("fstatat", "NOTIFY_STAT", p, L(1), S(2), L(4), seq) >>
      [] nr = "access" ->
            << ReportPath(nr, "NOTIFY_ACCESS", p, S(1), 0, 0, 0, "true", seq) >>
      [] nr = "faccessat" -> << ReportAt(nr, "NOTIFY_ACCESS", p, L(1), S(2), 0, seq) >>
      [] nr = "creat" ->
            ReportOpen(normalize_path(S(1)), BitOr(BitOr(O_CREAT, O_WRONLY), O_TRUNC), nr, p, seq)
      [] nr = "open" -> ReportOpen(normalize_path(S(1)), L(2), nr, p, seq)
      [] nr = "openat" -> ReportOpen(normalize_path_at(L(1), S(2)), L(3), nr, p, seq)
      [] nr \in {"write", "writev", "pwritev", "pwritev2", "pwrite64", "ftruncate", "sendfile"} ->
            HandleReportAccessFd(nr, L(1), "NOTIFY_WRITE", p, seq)
      [] nr = "copy_file_range" -> HandleReportAccessFd(nr, L(3), "NOTIFY_WRITE", p, seq)
      [] nr = "truncate" ->
            << ReportPath(nr, "NOTIFY_WRITE", p, S(1), 0, 0, 0, "true", seq) >>
      [] nr = "rename" -> HandleRenameGeneric(nr, AT_FDCWD, S(1), AT_FDCWD, S(2), p, seq)
      [] nr \in {"renameat", "renameat2"} ->
            HandleRenameGeneric(nr, L(1), S(2), L(3), S(4), p, seq)
      [] nr = "link" ->
            << ReportPaths(nr, "NOTIFY_LINK", p, normalize_path(S(1)), normalize_path(S(2)),
                           0, 0, "true", seq) >>
      [] nr = "linkat" ->
            << ReportPaths(nr, "NOTIFY_LINK", p, normalize_path_at(L(1), S(2)),
                           normalize_path_at(L(3), S(4)), 0, 0, "true", seq) >>
      [] nr = "unlink" ->
            IF S(1) # <<>>
            THEN << ReportPath(nr, "NOTIFY_UNLINK", p, S(1), 0, O_NOFOLLOW, 0, "true", seq) >>
            ELSE << >>
      [] nr = "unlinkat" -> Handleunlinkat(L(1), S(2), L(3), p, seq)
      [] nr = "symlink" ->
            << ReportEvent(nr, "NOTIFY_CREATE", p, 0, normalize_path(S(2)), S_IFLNK, 0,
                           "default", seq) >>
      [] nr = "symlinkat" ->
            << ReportEvent(nr, "NOTIFY_CREATE", p, 0, normalize_path_at(L(2), S(3)), S_IFLNK,
                           0, "default", seq) >>
      [] nr = "readlink" ->
            << ReportPath(nr, "NOTIFY_READLINK", p, S(1), 0, O_NOFOLLOW, 0, "true", seq) >>
      [] nr = "readlinkat" ->
            << ReportAt(nr, "NOTIFY_READLINK", p, L(1), S(2), O_NOFOLLOW, seq) >>
      [] nr \in {"utime", "utimes"} ->
            << ReportPaths("utime", "NOTIFY_SETTIME", p, S(1), <<>>, 0, 0, "true", seq) >>
      [] nr \in {"utimensat", "futimesat"} ->
            << ReportAt(nr, "NOTIFY_SETTIME", p, L(1), S(2), 0, seq) >>
      [] nr = "mknod" -> ReportCreate(nr, AT_FDCWD, S(1), S_IFREG, 0, "true", p, seq)
      [] nr = "mknodat" -> ReportCreate(nr, L(1), S(2), S_IFREG, 0, "true", p, seq)
      [] nr = "chmod" ->
            << ReportPath(nr, "NOTIFY_SETMODE", p, S(1), 0, 0, 0, "true", seq) >>
      [] nr = "fchmod" -> HandleReportAccessFd(nr, L(1), "NOTIFY_SETMODE", p, seq)
      [] nr = "fchmodat" ->
            << ReportAt(nr, "NOTIFY_SETMODE", p, L(1), S(2),
                        NoFollowIf(L(4), AT_SYMLINK_NOFOLLOW), seq) >>
      [] nr = "chown" ->
            << ReportPaths(nr, "AUTH_SETOWNER", p, S(1), <<>>, 0, 0, "true", seq) >>
      [] nr = "fchown" -> HandleReportAccessFd(nr, L(1), "AUTH_SETOWNER", p, seq)
      [] nr = "lchown" ->
            << ReportPath(nr, "AUTH_SETOWNER", p, S(1), 0, O_NOFOLLOW, 0, "true", seq) >>
      [] nr = "fchownat" ->
            << ReportAt(nr, "AUTH_SETOWNER", p, L(1), S(2),
                        NoFollowIf(L(5), AT_SYMLINK_NOFOLLOW), seq) >>
      [] nr = "name_to_handle_at" ->
            LET oflags == IF BitAnd(L(5), AT_SYMLINK_FOLLOW) # 0 THEN 0 ELSE O_NOFOLLOW
            IN  ReportOpen(normalize_path_at(L(1), S(2)), oflags, nr, p, seq)
      [] OTHER -> << >>

\* the report of a directory handler once its waitpid has returned
DirHandlerCalls(nr, dirfd, path, p, seq) ==
    IF nr = "rmdir"
    THEN << ReportPaths(nr, "NOTIFY_UNLINK", p, path, <<>>, S_IFDIR, GetErrno(p), "false", seq) >>
    ELSE ReportCreate(nr, dirfd, path, S_IFDIR, GetErrno(p), "false", p, seq)

\* the argument indices the handler of a syscall passes to ReadArgumentLong,
\* ReadArgumentString and ReadArgumentVector (0: the return value, read by
\* GetErrno and HandleChildProcess after the handler's wait)
ArgumentIndicesMutSeventh(nr) ==
    IF nr = "execveat" THEN {1, 2, 3, 7} ELSE {1}

ArgumentIndices(nr) ==
    CASE nr = "execveat" -> {1, 2, 5, 3}
      [] nr = "execve" -> {1, 2}
      [] nr \in {"stat", "lstat", "fstat", "access", "creat", "truncate", "ftruncate"} -> {1}
      [] nr \in {"write", "writev", "pwritev", "pwritev2", "pwrite64", "sendfile"} -> {1}
      [] nr \in {"unlink", "readlink", "utime", "utimes", "mknod", "chmod", "fchmod"} -> {1}
      [] nr \in {"chown", "fchown", "lchown"} -> {1}
      [] nr \in {"newfstatat", "fchmodat"} -> {1, 2, 4}
      [] nr \in {"faccessat", "readlinkat", "utimensat", "futimesat", "mknodat"} -> {1, 2}
      [] nr \in {"open", "rename", "link"} -> {1, 2}
      [] nr \in {"openat", "unlinkat"} -> {1, 2, 3}
      [] nr \in {"renameat", "renameat2", "linkat"} -> {1, 2, 3, 4}
      [] nr = "symlink" -> {2}
      [] nr = "symlinkat" -> {2, 3}
      [] nr \in {"fchownat", "name_to_handle_at"} -> {1, 2, 5}
      [] nr = "copy_file_range" -> {3}
      [] nr \in {"mkdir", "rmdir"} -> {1, 0}
      [] nr = "mkdirat" -> {1, 2, 0}
      [] nr \in {"fork", "clone"} -> {0}
      [] OTHER -> {}

(***************************************************************************)
(* The named semaphore "/<pid>": sem_open(name, O_CREAT, 0644, 0) gives    *)
(* the object linked under the name, or links a new one of count 0.        *)
(***************************************************************************)
SemOpenedMutAlwaysNew(sm) ==
    [sm |-> [sm EXCEPT !.made = @ + 1, !.linked = sm.made + 1], h |-> sm.made + 1]

SemOpened(sm) ==
    IF sm.linked # 0 THEN [sm |-> sm, h |-> sm.linked]
    ELSE [sm |-> [sm EXCEPT !.made = @ + 1, !.linked = sm.made + 1], h |-> sm.made + 1]

(***************************************************************************)
(* The bootstrap: ExecuteWithPTraceSandbox, run by process Root.  Each     *)
(* library call is one step; the syscall stops of these calls themselves   *)
(* (before execve) are left out: the loop only resumes from them.          *)
(***************************************************************************)
TargetExe == TraceeMemory[1]

BootRuns == proc[Root].phase = "user" /\ ~proc[Root].held

\* real__exit(-1): the process ends; a seized process first reports its
\* PTRACE_EVENT_EXIT stop
BootExited ==
    [proc EXCEPT ![Root] = IF attached THEN StopAt(@, "exit_stop")
                           ELSE [@ EXCEPT !.phase = "reaped"]]

BootSemOpen ==
    /\ bpc = "sem_open" /\ BootRuns
    /\ \/ LET o == SemOpened(sem)
          IN  /\ sem' = [o.sm EXCEPT !.bsem = o.h]
              /\ bpc' = "clock"
              /\ UNCHANGED proc
       \/ /\ bpc' = "exited" /\ proc' = BootExited /\ UNCHANGED sem
    /\ UNCHANGED << tracerVars, waitResult, attached, envVars >>

BootClock ==
    /\ bpc = "clock" /\ BootRuns
    /\ \/ bpc' = "sem_wait" /\ UNCHANGED proc
       \/ bpc' = "exited" /\ proc' = BootExited
    /\ UNCHANGED << tracerVars, waitResult, sem, attached, envVars >>

BootSemWaitMutNoWait ==
    /\ bpc = "sem_wait" /\ BootRuns
    /\ waitResult' = 0
    /\ bpc' = "sem_close"
    /\ UNCHANGED << tracerVars, sem, proc, attached, envVars >>

\* sem_timedwait: takes the semaphore once it is posted; fails when the
\* deadline passes first
BootSemWait ==
    /\ bpc = "sem_wait" /\ BootRuns
    /\ \/ /\ sem.count[sem.bsem] > 0
          /\ sem' = [sem EXCEPT !.count[sem.bsem] = @ - 1]
          /\ waitResult' = 0
       \/ /\ sem.count[sem.bsem] = 0
          /\ waitResult' = -1
          /\ UNCHANGED sem
    /\ bpc' = "sem_close"
    /\ UNCHANGED << tracerVars, proc, attached, envVars >>

BootSemCloseMutIgnoreResult ==
    /\ bpc = "sem_close" /\ BootRuns
    /\ sem' = [sem EXCEPT !.bsem = 0, !.linked = 0]
    /\ bpc' = "no_new_privs" /\ UNCHANGED proc
    /\ UNCHANGED << tracerVars, waitResult, attached, envVars >>

\* sem_close, sem_unlink, then the test of waitResult
BootSemClose ==
    /\ bpc = "sem_close" /\ BootRuns
    /\ sem' = [sem EXCEPT !.bsem = 0, !.linked = 0]
    /\ IF waitResult = -1
       THEN bpc' = "exited" /\ proc' = BootExited
       ELSE bpc' = "no_new_privs" /\ UNCHANGED proc
    /\ UNCHANGED << tracerVars, waitResult, attached, envVars >>

BootNoNewPrivsMutSkipFilter ==
    /\ bpc = "no_new_privs" /\ BootRuns
    /\ \/ bpc' = "execvpe" /\ UNCHANGED proc
       \/ bpc' = "exited" /\ proc' = BootExited
    /\ UNCHANGED << tracerVars, waitResult, sem, attached, envVars >>

BootNoNewPrivs ==
    /\ bpc = "no_new_privs" /\ BootRuns
    /\ \/ bpc' = "set_seccomp" /\ UNCHANGED proc
       \/ bpc' = "exited" /\ proc' = BootExited
    /\ UNCHANGED << tracerVars, waitResult, sem, attached, envVars >>

BootSetSeccomp ==
    /\ bpc = "set_seccomp" /\ BootRuns
    /\ \/ bpc' = "execvpe" /\ UNCHANGED proc
       \/ bpc' = "exited" /\ proc' = BootExited
    /\ UNCHANGED << tracerVars, waitResult, sem, attached, envVars >>

\* the filter is installed in Root from the prctl on, and inherited by children
FilterInstalled == bpc \in {"execvpe", "in_exec", "image", "returned"}

\* a process enters a syscall: a syscall-entry-stop when it is being stepped,
\* then the filter's verdict
EnterSyscall(pr, inv) ==
    LET q == [pr EXCEPT !.sys = inv, !.seq = @ + 1, !.rax = -ENOSYS]
    IN  IF q.stepping THEN StopAt(q, "entry_stop")
        ELSE IF Surfaced(inv.nr) THEN StopAt(q, "seccomp_stop")
        ELSE [q EXCEPT !.phase = "kernel"]

\* real_execvpe(file, argv, envp): the execve system call of the bootstrap
BootExecvpe ==
    /\ bpc = "execvpe" /\ BootRuns
    /\ bpc' = "in_exec"
    /\ proc' = [proc EXCEPT ![Root] =
                   EnterSyscall(@, Invocation("execve", AddrOf(TargetExe), 11, 0, 0, 0, 0))]
    /\ UNCHANGED << tracerVars, waitResult, sem, attached, envVars >>

(***************************************************************************)
(* The tracer: AttachToProcess up to the event loop (lines 188-219).       *)
(***************************************************************************)
NoCtx == [syscall |-> "none", path |-> <<>>, dirfd |-> 0, seq |-> 0]

\* _exit(-1) of the tracer: the kernel detaches its tracees
TracerDetached ==
    [p \in Pids |->
        IF proc[p].phase \in StopPhases
        THEN IF proc[p].phase = "exit_stop"
             THEN [proc[p] EXCEPT !.phase = "reaped", !.held = FALSE, !.pend = FALSE,
                                  !.sig = 0]
             ELSE [proc[p] EXCEPT !.phase = "user", !.held = FALSE, !.pend = FALSE,
                                  !.intr = FALSE, !.stepping = FALSE, !.sig = 0]
        ELSE [proc[p] EXCEPT !.intr = FALSE, !.stepping = FALSE]]

TracerFails ==
    /\ tpc' = "exitfail"
    /\ attached' = FALSE
    /\ proc' = TracerDetached

RootAlive == proc[Root].phase \in LivePhases

\* ptrace(PTRACE_SEIZE, traceePid, 0, options)
AttachSeize ==
    /\ tpc = "seize"
    /\ \/ /\ RootAlive
          /\ tpc' = "interrupt"
          /\ attached' = TRUE
          /\ UNCHANGED proc
       \/ TracerFails
    /\ UNCHANGED << m_traceePid, m_traceeTable, hctx, events, dispatch, bootVars, sem, envVars >>

AttachInterruptMutPushFirst ==
    /\ tpc = "interrupt"
    /\ m_traceePid' = Root
    /\ m_traceeTable' = Append(m_traceeTable, <<Root, TargetExe>>)
    /\ \/ /\ RootAlive
          /\ tpc' = "resume"
          /\ proc' = [proc EXCEPT ![Root].intr = TRUE]
          /\ UNCHANGED attached
       \/ TracerFails
    /\ UNCHANGED << hctx, events, dispatch, bootVars, sem, envVars >>

\* ptrace(PTRACE_INTERRUPT, traceePid), then lines 204-206
AttachInterrupt ==
    /\ tpc = "interrupt"
    /\ \/ /\ RootAlive
          /\ tpc' = "resume"
          /\ proc' = [proc EXCEPT ![Root].intr = TRUE]
          /\ m_traceePid' = Root
          /\ m_traceeTable' = Append(m_traceeTable, <<Root, TargetExe>>)
          /\ UNCHANGED attached
       \/ /\ TracerFails
          /\ UNCHANGED << m_traceePid, m_traceeTable >>
    /\ UNCHANGED << hctx, events, dispatch, bootVars, sem, envVars >>

\* ptrace(PTRACE_SYSCALL, m_traceePid, 0, 0), line 209
AttachResume ==
    /\ tpc = "resume"
    /\ tpc' = "sem_open"
    /\ proc' = [proc EXCEPT ![m_traceePid] = PtraceResume(@, "PTRACE_SYSCALL")]
    /\ UNCHANGED << m_traceePid, m_traceeTable, hctx, events, dispatch, bootVars, sem,
                    attached, envVars >>

\* sem_open(semaphoreName, O_CREAT, 0644, 0), line 212
AttachSemOpen ==
    /\ tpc = "sem_open"
    /\ \/ LET o == SemOpened(sem)
          IN  /\ sem' = [o.sm EXCEPT !.tsem = o.h]
              /\ tpc' = "sem_post"
              /\ UNCHANGED << proc, attached >>
       \/ TracerFails /\ UNCHANGED sem
    /\ UNCHANGED << m_traceePid, m_traceeTable, hctx, events, dispatch, bootVars, envVars >>

\* sem_post, sem_close, and on into the loop
AttachSemPost ==
    /\ tpc = "sem_post"
    /\ sem' = [sem EXCEPT !.count[sem.tsem] = @ + 1, !.tsem = 0]
    /\ tpc' = "loop"
    /\ UNCHANGED << m_traceePid, m_traceeTable, hctx, events, dispatch, bootVars, proc,
                    attached, envVars >>

(***************************************************************************)
(* The kernel and the traced processes.                                    *)
(***************************************************************************)
TracerLives == tpc \notin {"exit0", "exitfail"}

\* the PTRACE_INTERRUPT takes effect: a PTRACE_EVENT_STOP
TakeInterrupt(p) ==
    /\ proc[p].intr /\ proc[p].phase = "user" /\ attached
    /\ proc' = [proc EXCEPT ![p] = StopAt([@ EXCEPT !.intr = FALSE], "trap_stop")]
    /\ UNCHANGED << tracerVars, bootVars, sem, attached, envVars >>

\* the target program issues a system call of its menu
IssueSyscall(p) ==
    /\ proc[p].phase = "user" /\ ~proc[p].intr
    /\ p = Root => bpc = "image"
    /\ quota > 0
    /\ \E inv \in menu :
          proc' = [proc EXCEPT ![p] = EnterSyscall(@, inv)]
    /\ quota' = quota - 1
    /\ UNCHANGED << tracerVars, bootVars, sem, attached, menu, fsys, reportingArgs, reading >>

\* the pid the kernel gives the next child, 0 when none is left
FreePid ==
    IF \E c \in Pids : proc[c].phase = "unborn"
    THEN CHOOSE c \in Pids : proc[c].phase = "unborn" /\ \A d \in Pids : d < c => proc[d].phase # "unborn"
    ELSE 0

\* a child of fork, clone or vfork (born: the call that made it): traced from birth (PTRACE_O_TRACEFORK/CLONE/VFORK),
\* it starts in a PTRACE_EVENT_STOP
NewChild(parent, nr) ==
    StopAt([Unborn EXCEPT !.parent = parent, !.vf = (nr = "vfork"), !.born = nr], "trap_stop")

SyscallResults(nr) ==
    IF nr \in DirHandlers THEN {0} \cup { -e : e \in 1..MaxErrno } ELSE {0}

\* the syscall of p runs in the kernel
RunSyscall(p) ==
    /\ proc[p].phase = "kernel"
    /\ LET nr == proc[p].sys.nr
           me == [proc[p] EXCEPT !.ran = proc[p].seq]
       IN  \/ /\ nr \in {"fork", "clone", "vfork"}
              /\ FreePid # 0
              /\ proc' = [proc EXCEPT
                            ![FreePid] = NewChild(p, nr),
                            ![p] = StopAt([me EXCEPT !.rax = FreePid],
                                          CASE nr = "fork" -> "fork_stop"
                                            [] nr = "clone" -> "clone_stop"
                                            [] OTHER -> "vfork_stop")]
              /\ UNCHANGED bpc
           \/ /\ nr \in {"fork", "clone", "vfork"}
              /\ proc' = [proc EXCEPT ![p] = AfterSyscall([me EXCEPT !.rax = -11])]
              /\ UNCHANGED bpc
           \/ /\ nr \in ExecHandlers
              /\ \E ok \in BOOLEAN :
                    /\ proc' = [proc EXCEPT ![p] =
                                   AfterSyscall([me EXCEPT !.rax = IF ok THEN 0 ELSE -2,
                                                           !.vf = IF ok THEN FALSE ELSE @])]
                    /\ bpc' = IF p = Root /\ bpc = "in_exec"
                              THEN (IF ok THEN "image" ELSE "returned")
                              ELSE bpc
           \/ /\ nr \notin {"fork", "clone", "vfork"} \cup ExecHandlers
              /\ \E r \in SyscallResults(nr) :
                    proc' = [proc EXCEPT ![p] = AfterSyscall([me EXCEPT !.rax = r])]
              /\ UNCHANGED bpc
    /\ UNCHANGED << tracerVars, waitResult, sem, attached, envVars >>

\* a vfork parent stays suspended while a vfork child of it has neither
\* exec'ed nor exited
HoldsParent(p) == \E c \in Pids : proc[c].parent = p /\ proc[c].vf /\ proc[c].phase \in LivePhases

\* a resumed tracee leaves its stop; the signal passed on with the resume
\* is taken by the kernel there
LeaveStop(p) ==
    /\ proc[p].phase \in StopPhases /\ ~proc[p].held
    /\ LET pr == [proc[p] EXCEPT !.sig = 0]
           ph == pr.phase
       IN  proc' = [proc EXCEPT ![p] =
              CASE ph = "trap_stop" -> [pr EXCEPT !.phase = "user"]
                [] ph = "entry_stop" ->
                      IF FilterInstalled /\ Surfaced(pr.sys.nr) THEN StopAt(pr, "seccomp_stop")
                      ELSE [pr EXCEPT !.phase = "kernel"]
                [] ph = "seccomp_stop" -> [pr EXCEPT !.phase = "kernel"]
                [] ph \in {"fork_stop", "clone_stop"} -> AfterSyscall(pr)
                [] ph = "vfork_stop" -> [pr EXCEPT !.phase = "vfwait"]
                [] ph = "sysexit_stop" -> [pr EXCEPT !.phase = "user"]
                [] OTHER -> [pr EXCEPT !.phase = "zombie", !.pend = TRUE, !.vf = FALSE]]
    /\ UNCHANGED << tracerVars, bootVars, sem, attached, envVars >>

\* the vfork child has exec'ed or exited: the parent's vfork returns
VforkReturns(p) ==
    /\ proc[p].phase = "vfwait" /\ ~HoldsParent(p)
    /\ proc' = [proc EXCEPT ![p] = AfterSyscall(@)]
    /\ UNCHANGED << tracerVars, bootVars, sem, attached, envVars >>

\* the process ends: exit_group from user mode, or a fatal signal taken while
\* it runs in a syscall; with PTRACE_O_TRACEEXIT it reports a
\* PTRACE_EVENT_EXIT stop first
Terminate(p) ==
    /\ TracerLives /\ attached
    /\ proc[p].phase \in {"user", "kernel", "vfwait"}
    /\ p = Root => bpc \in {"image", "returned"}
    /\ proc' = [proc EXCEPT ![p] =
                   StopAt([@ EXCEPT !.killed = (proc[p].phase # "user"), !.intr = FALSE],
                          "exit_stop")]
    /\ UNCHANGED << tracerVars, bootVars, sem, attached, envVars >>

(***************************************************************************)
(* The tracer: the event loop of AttachToProcess (lines 226-293).          *)
(***************************************************************************)
\* the branch the loop takes on a wait status
Classify(status) ==
    IF status.kind \in {"EXITED", "SIGNALED"} THEN "terminated"
    ELSE IF status.kind # "STOPPED" THEN "bad"
    ELSE IF IsEventStop(status, "PTRACE_EVENT_VFORK") THEN "vfork"
    ELSE IF IsEventStop(status, "PTRACE_EVENT_EXIT") THEN "exit"
    ELSE IF IsEventStop(status, "PTRACE_EVENT_SECCOMP") THEN "seccomp"
    ELSE IF BitAnd(status.stopsig, SYSGOOD) = 0 THEN "signal"
    ELSE "syscall"

\* wait(&status) returns p
WaitReturns(p, branch) ==
    /\ tpc = "loop"
    /\ proc[p].pend
    /\ Classify(WaitStatus(p)) = branch
    /\ m_traceePid' = p

\* the tracee whose stop a waitpid(pid, ...) of a handler can return
WaitTargetsMutAny(pid) == Pids

WaitTargets(pid) == {pid}

\* wait fails with ECHILD: _exit(0)
\* wait returned -1: _exit(0) when errno is ECHILD, _exit(-1) otherwise; the
\* call is not made again
WaitFailed(errno) == IF errno # "ECHILD" THEN "exitfail" ELSE "exit0"

LoopNoChildrenMutRootOnly ==
    /\ tpc = "loop"
    /\ proc[Root].phase \in {"unborn", "reaped"}
    /\ tpc' = WaitFailed("ECHILD")
    /\ m_traceePid' = -1
    /\ attached' = FALSE
    /\ UNCHANGED << m_traceeTable, hctx, events, dispatch, bootVars, sem, proc, envVars >>

LoopNoChildren ==
    /\ tpc = "loop"
    /\ \A p \in Pids : proc[p].phase \in {"unborn", "reaped"}
    /\ tpc' = WaitFailed("ECHILD")
    /\ m_traceePid' = -1
    /\ attached' = FALSE
    /\ UNCHANGED << m_traceeTable, hctx, events, dispatch, bootVars, sem, proc, envVars >>

\* WIFEXITED or WIFSIGNALED: continue
LoopTerminated(p) ==
    /\ WaitReturns(p, "terminated")
    /\ proc' = [proc EXCEPT ![p].phase = "reaped", ![p].pend = FALSE]
    /\ UNCHANGED << tpc, m_traceeTable, hctx, events, dispatch, bootVars, sem, attached,
                    envVars >>

LoopVforkStopMutAddsChild(p) ==
    /\ WaitReturns(p, "vfork")
    /\ m_traceeTable' = Append(m_traceeTable, <<ReadArgumentLong(p, 0), GetProgramPath>>)
    /\ proc' = [proc EXCEPT ![p] = PtraceResume(@, "PTRACE_SYSCALL")]
    /\ UNCHANGED << tpc, hctx, events, dispatch, bootVars, sem, attached, envVars >>

\* PTRACE_EVENT_VFORK: resume only
LoopVforkStop(p) ==
    /\ WaitReturns(p, "vfork")
    /\ proc' = [proc EXCEPT ![p] = PtraceResume(@, "PTRACE_SYSCALL")]
    /\ UNCHANGED << tpc, m_traceeTable, hctx, events, dispatch, bootVars, sem, attached,
                    envVars >>

\* Handleexit: m_bxl->SendExitReport(m_traceePid)
Handleexit(p, seq) ==
    << SinkCall("SendExitReport", "exit", "EXIT", p, 0, <<>>, <<>>, 0, 0, 0, "default", 0, seq) >>

\* PTRACE_EVENT_EXIT: RemoveFromTraceeTable, then resume
LoopExitStop(p) ==
    /\ WaitReturns(p, "exit")
    /\ m_traceeTable' = RemovePid(m_traceeTable, p)
    /\ events' = events \o Handleexit(p, proc[p].seq)
    /\ proc' = [proc EXCEPT ![p] = PtraceResume(@, "PTRACE_SYSCALL")]
    /\ UNCHANGED << tpc, hctx, dispatch, bootVars, sem, attached, envVars >>

LoopSignalStopMutNoSignal(p) ==
    /\ WaitReturns(p, "signal")
    /\ proc' = [proc EXCEPT ![p] = PtraceResume(@, "PTRACE_SYSCALL")]
    /\ UNCHANGED << tpc, m_traceeTable, hctx, events, dispatch, bootVars, sem, attached,
                    envVars >>

\* a signal-delivery-stop, as the loop sees it: bit 7 of the stop signal clear;
\* resumed with WSTOPSIG(status) as the signal to deliver
LoopSignalStop(p) ==
    /\ WaitReturns(p, "signal")
    /\ proc' = [proc EXCEPT ![p] =
                   PtraceResumeSignal(@, "PTRACE_SYSCALL", WaitStatus(p).stopsig)]
    /\ UNCHANGED << tpc, m_traceeTable, hctx, events, dispatch, bootVars, sem, attached,
                    envVars >>

\* the last branch taking the stop without resuming the tracee
LoopSyscallStopMutNoResume(p) ==
    /\ WaitReturns(p, "syscall")
    /\ proc' = [proc EXCEPT ![p].pend = FALSE]
    /\ UNCHANGED << tpc, m_traceeTable, hctx, events, dispatch, bootVars, sem, attached,
                    envVars >>

\* the last branch: syscall-entry and syscall-exit stops
LoopSyscallStop(p) ==
    /\ WaitReturns(p, "syscall")
    /\ proc' = [proc EXCEPT ![p] = PtraceResume(@, "PTRACE_SYSCALL")]
    /\ UNCHANGED << tpc, m_traceeTable, hctx, events, dispatch, bootVars, sem, attached,
                    envVars >>

\* PTRACE_EVENT_SECCOMP with a handler that reports at this stop, or with no
\* handler: HandleSysCallGeneric, then PTRACE_CONT
LoopSeccompStop(p) ==
    /\ WaitReturns(p, "seccomp")
    /\ LET syscallNumber == proc[p].sys.nr
           handlers == HandleSysCallGeneric(syscallNumber)
           seq == proc[p].seq
       IN  /\ \A i \in DOMAIN handlers : handlers[i] \notin WaitingHandlers
           /\ dispatch' = [pid |-> p, nr |-> syscallNumber, handlers |-> handlers, seq |-> seq]
           /\ IF handlers = <<>>
              THEN UNCHANGED << m_traceeTable, events >>
              ELSE IF handlers[1] \in ExecHandlers
              THEN LET exePath == ExecPath(handlers[1], p)
                       upd == UpdateTraceeTableForExec(m_traceeTable, exePath, p, seq)
                   IN  /\ m_traceeTable' = upd.table
                       /\ events' = events \o upd.calls
                                    \o ExecReports(handlers[1], exePath,
                                                   IF handlers[1] = "execve" THEN 2 ELSE 3, p, seq)
              ELSE /\ events' = events \o HandlerCalls(handlers[1], p, seq)
                   /\ UNCHANGED m_traceeTable
    /\ proc' = [proc EXCEPT ![p] = PtraceResume(@, "PTRACE_CONT")]
    /\ UNCHANGED << tpc, hctx, bootVars, sem, attached, envVars >>

\* PTRACE_EVENT_SECCOMP with a handler that waits: the handler reads its
\* arguments, resumes the tracee with PTRACE_SYSCALL and blocks in waitpid
LoopSeccompWaits(p) ==
    /\ WaitReturns(p, "seccomp")
    /\ LET syscallNumber == proc[p].sys.nr
           handlers == HandleSysCallGeneric(syscallNumber)
           seq == proc[p].seq
       IN  /\ handlers # <<>> /\ handlers[1] \in WaitingHandlers
           /\ dispatch' = [pid |-> p, nr |-> syscallNumber, handlers |-> handlers, seq |-> seq]
           /\ hctx' = CASE handlers[1] = "mkdirat" ->
                             [syscall |-> "mkdirat", path |-> ReadArgumentString(p, 2),
                              dirfd |-> ReadArgumentLong(p, 1), seq |-> seq]
                        [] handlers[1] \in {"mkdir", "rmdir"} ->
                             [syscall |-> handlers[1], path |-> ReadArgumentString(p, 1),
                              dirfd |-> AT_FDCWD, seq |-> seq]
                        [] OTHER ->
                             [syscall |-> handlers[1], path |-> <<>>, dirfd |-> 0, seq |-> seq]
    /\ tpc' = "hwait"
    /\ proc' = [proc EXCEPT ![p] = PtraceResume(@, "PTRACE_SYSCALL")]
    /\ UNCHANGED << m_traceeTable, events, bootVars, sem, attached, envVars >>

\* mkdir, mkdirat, rmdir: waitpid returns, the handler reports with GetErrno(),
\* and the loop resumes the tracee with PTRACE_CONT
DirHandlerReturns ==
    /\ tpc = "hwait" /\ hctx.syscall \in DirHandlers
    /\ \E q \in WaitTargets(m_traceePid) :
          /\ proc[q].pend
          /\ events' = events \o DirHandlerCalls(hctx.syscall, hctx.dirfd, hctx.path,
                                                 m_traceePid, hctx.seq)
          /\ proc' = [proc EXCEPT ![q].pend = FALSE,
                                  ![m_traceePid] = PtraceResume(@, "PTRACE_CONT")]
    /\ tpc' = "loop"
    /\ hctx' = NoCtx
    /\ UNCHANGED << m_traceePid, m_traceeTable, dispatch, bootVars, sem, attached, envVars >>

\* HandleChildProcess taking the sink's program path even when the parent has
\* a table entry
ChildProcessReportMutProgramPath(table, syscall, p, seq) ==
    LET childpid == ReadArgumentLong(p, 0)
        exePath == GetProgramPath
    IN  [ calls |-> << ReportEvent(syscall, "NOTIFY_FORK", p, childpid, exePath, 0, 0,
                                   "false", seq) >>,
          table |-> Append(table, <<childpid, exePath>>) ]

\* HandleChildProcess adding the child without reporting it
ChildProcessReportMutNoEvent(table, syscall, p, seq) ==
    [ calls |-> << >>,
      table |-> Append(table, <<ReadArgumentLong(p, 0), GetProgramPath>>) ]

\* HandleChildProcess from line 1134 on: the sink call and the new table
ChildProcessReport(table, syscall, p, seq) ==
    LET childpid == ReadArgumentLong(p, 0)
        maybeParent == FindProcess(table, p)
        exePath == IF maybeParent # 0 THEN table[maybeParent][2] ELSE GetProgramPath
    IN  [ calls |-> << ReportEvent(syscall, "NOTIFY_FORK", p, childpid, exePath, 0, 0,
                                   "false", seq) >>,
          table |-> Append(table, <<childpid, exePath>>) ]

ChildHandlerFinishes ==
    LET r == ChildProcessReport(m_traceeTable, hctx.syscall, m_traceePid, hctx.seq)
    IN  /\ events' = events \o r.calls
        /\ m_traceeTable' = r.table
        /\ tpc' = "loop"
        /\ hctx' = NoCtx

\* fork, clone: the first waitpid returns
ChildHandlerWait ==
    /\ tpc = "hwait" /\ hctx.syscall \in {"fork", "clone"}
    /\ proc[m_traceePid].pend
    /\ LET status == WaitStatus(m_traceePid)
       IN  IF IsEventStop(status, "PTRACE_EVENT_CLONE") \/ IsEventStop(status, "PTRACE_EVENT_FORK")
           THEN /\ tpc' = "hwait2"
                /\ proc' = [proc EXCEPT ![m_traceePid] = PtraceResume(@, "PTRACE_SYSCALL")]
                /\ UNCHANGED << m_traceeTable, hctx, events >>
           ELSE /\ ChildHandlerFinishes
                /\ proc' = [proc EXCEPT ![m_traceePid] = PtraceResume(@, "PTRACE_CONT")]
    /\ UNCHANGED << m_traceePid, dispatch, bootVars, sem, attached, envVars >>

\* fork, clone: the second waitpid returns
ChildHandlerWait2 ==
    /\ tpc = "hwait2"
    /\ proc[m_traceePid].pend
    /\ ChildHandlerFinishes
    /\ proc' = [proc EXCEPT ![m_traceePid] = PtraceResume(@, "PTRACE_CONT")]
    /\ UNCHANGED << m_traceePid, dispatch, bootVars, sem, attached, envVars >>

(***************************************************************************)
(* The target programs and file systems the runs are drawn from.           *)
(***************************************************************************)
A(str) == AddrOf(str)

MkdirCall == Invocation("mkdir", A(<<"/", "d", "x">>), 0, 0, 0, 0, 0)
MkdiratCall == Invocation("mkdirat", 3, A(<<"rel">>), 0, 0, 0, 0)
RmdirCall == Invocation("rmdir", A(<<"/", "d", "x">>), 0, 0, 0, 0, 0)
ForkCall == Invocation("fork", 0, 0, 0, 0, 0, 0)
CloneCall == Invocation("clone", 0, 0, 0, 0, 0, 0)
VforkCall == Invocation("vfork", 0, 0, 0, 0, 0, 0)
ExecveCall == Invocation("execve", A(<<"/", "bin", "ls">>), 11, 0, 0, 0, 0)
ExecveatCall == Invocation("execveat", 3, A(<<"rel">>), 11, 0, 0, 0)
Renameat2Call == Invocation("renameat2", AT_FDCWD, A(<<"/", "a">>), AT_FDCWD, A(<<"rel">>), 0, 0)
RenameCall == Invocation("rename", A(<<"/", "d">>), A(<<"rel">>), 0, 0, 0, 0)
GetpidCall == Invocation("getpid", 0, 0, 0, 0, 0, 0)
Renameat2DirCall ==
    Invocation("renameat2", AT_FDCWD, A(<<"/", "d">>), AT_FDCWD, A(<<"rel">>), 0, 0)

\* unlink and unlinkat of the empty path
EmptyPathCalls ==
    { Invocation("unlink", A(<<>>), 0, 0, 0, 0, 0) }
    \cup { Invocation("unlinkat", dirfd, A(<<>>), flags, 0, 0, 0) :
             dirfd \in {3, AT_FDCWD}, flags \in {0, AT_REMOVEDIR} }

\* unlinkat of a path relative to the working directory (dirfd passed as the
\* 64-bit value -100) and to a directory descriptor
UnlinkatCalls ==
    { Invocation("unlinkat", dirfd, A(<<"rel">>), flags, 0, 0, 0) :
         dirfd \in {3, AT_FDCWD}, flags \in {0, AT_REMOVEDIR} }

\* calls whose path argument, or argv array, is not mapped in the tracee
FaultCalls ==
    { Invocation("stat", UnmappedAddr, 0, 0, 0, 0, 0),
      Invocation("mkdir", UnmappedAddr, 0, 0, 0, 0, 0),
      Invocation("execve", UnmappedAddr, UnmappedAddr, 0, 0, 0, 0) }

\* readlinkat on descriptors that are no files
ReadlinkatCalls == { Invocation("readlinkat", fd, A(<<"x">>), 0, 0, 0, 0) : fd \in {PipeFd, ClosedFd} }

\* the fd-keyed calls on a pipe, and sendfile and copy_file_range between a
\* file and a pipe
FdHandlers ==
    { "write", "writev", "pwritev", "pwritev2", "pwrite64", "ftruncate", "sendfile",
      "copy_file_range", "fstat", "fchmod", "fchown" }

FdCalls ==
    { Invocation(nr, PipeFd, 0, 0, 0, 0, 0) : nr \in FdHandlers \ {"sendfile", "copy_file_range"} }
    \cup { Invocation("sendfile", PipeFd, 3, 0, 0, 0, 0), Invocation("sendfile", 3, PipeFd, 0, 0, 0, 0),
           Invocation("copy_file_range", PipeFd, 0, 4, 0, 0, 0),
           Invocation("copy_file_range", 4, 0, PipeFd, 0, 0, 0),
           Invocation("fstat", ClosedFd, 0, 0, 0, 0, 0) }

\* the open flags the programs use
OpenFlagChoices ==
    { 0, O_WRONLY, O_RDWR, O_CREAT, O_TRUNC, BitOr(O_WRONLY, O_TRUNC), BitOr(O_RDWR, O_CREAT),
      BitOr(O_WRONLY, O_NOFOLLOW), BitOr(BitOr(O_CREAT, O_WRONLY), O_TRUNC) }

OpenCalls ==
    { Invocation("open", A(path), flags, 0, 0, 0, 0) :
         path \in { <<"/", "a">>, <<"rel">> }, flags \in OpenFlagChoices }
    \cup { Invocation("openat", 3, A(<<"x">>), flags, 0, 0, 0) : flags \in OpenFlagChoices }
    \cup { Invocation("creat", A(path), 420, 0, 0, 0, 0) : path \in { <<"/", "a">>, <<"rel">> } }

\* one invocation of every syscall number the filter surfaces
AllFilteredCalls == { Invocation(FilterTable[i], 3, 2, 3, 4, 0, 0) : i \in DOMAIN FilterTable }

FsFull ==
    [ q \in KnownPathSet |->
        CASE q = <<"/", "d">> -> S_IFDIR
          [] q = <<"/", "cwd", "rel">> -> 0
          [] OTHER -> S_IFREG ]

FsBare == [ q \in KnownPathSet |-> IF q = <<"/", "bin", "ls">> THEN S_IFREG ELSE 0 ]

Scenarios ==
    { [menu |-> {MkdirCall, MkdiratCall, RmdirCall}, quota |-> MaxCalls, fsys |-> FsBare,
       reportingArgs |-> FALSE],
      [menu |-> {ForkCall, VforkCall, ExecveCall}, quota |-> MaxCalls, fsys |-> FsFull,
       reportingArgs |-> TRUE],
      [menu |-> {CloneCall, MkdirCall, ExecveatCall, GetpidCall}, quota |-> MaxCalls,
       fsys |-> FsFull, reportingArgs |-> FALSE],
      [menu |-> {Renameat2Call, RenameCall, Renameat2DirCall}, quota |-> MaxCalls, fsys |-> FsFull,
       reportingArgs |-> FALSE],
      [menu |-> OpenCalls, quota |-> MaxDispatchCalls, fsys |-> FsFull, reportingArgs |-> FALSE],
      [menu |-> OpenCalls, quota |-> MaxDispatchCalls, fsys |-> FsBare, reportingArgs |-> FALSE],
      [menu |-> AllFilteredCalls, quota |-> MaxDispatchCalls, fsys |-> FsFull,
       reportingArgs |-> TRUE],
      [menu |-> EmptyPathCalls \cup UnlinkatCalls \cup ReadlinkatCalls \cup FdCalls,
       quota |-> MaxDispatchCalls, fsys |-> FsFull, reportingArgs |-> FALSE],
      [menu |-> FaultCalls, quota |-> MaxDispatchCalls, fsys |-> FsFull,
       reportingArgs |-> TRUE] }

(***************************************************************************)
(* The specification.                                                      *)
(***************************************************************************)
NoDispatch == [pid |-> 0, nr |-> "none", handlers |-> <<>>, seq |-> 0]

\* no string read is modelled byte by byte
NoRead ==
    [ pc |-> "idle", mem |-> <<>>, start |-> 0, nullTerminated |-> TRUE, length |-> 0,
      addr |-> 0, argument |-> <<>>, faulted |-> FALSE ]

InitProgram ==
    /\ tpc = "seize"
    /\ m_traceePid = 0
    /\ m_traceeTable = <<>>
    /\ hctx = NoCtx
    /\ events = <<>>
    /\ dispatch = NoDispatch
    /\ bpc = "sem_open"
    /\ waitResult = 0
    /\ sem = [linked |-> 0, made |-> 0, count |-> <<0, 0>>, bsem |-> 0, tsem |-> 0]
    /\ proc = [p \in Pids |-> IF p = Root THEN [Unborn EXCEPT !.phase = "user"] ELSE Unborn]
    /\ attached = FALSE
    /\ \E sc \in Scenarios :
          /\ menu = sc.menu
          /\ quota = sc.quota
          /\ fsys = sc.fsys
          /\ reportingArgs = sc.reportingArgs

Init == InitProgram /\ reading = NoRead

Bootstrap ==
    \/ BootSemOpen \/ BootClock \/ BootSemWait \/ BootSemClose
    \/ BootNoNewPrivs \/ BootSetSeccomp \/ BootExecvpe

Attach ==
    \/ AttachSeize \/ AttachInterrupt \/ AttachResume \/ AttachSemOpen \/ AttachSemPost

Kernel ==
    \E p \in Pids :
       \/ TakeInterrupt(p) \/ IssueSyscall(p) \/ RunSyscall(p) \/ LeaveStop(p)
       \/ VforkReturns(p) \/ Terminate(p)

EventLoop ==
    \/ LoopNoChildren
    \/ \E p \in Pids :
          \/ LoopTerminated(p) \/ LoopVforkStop(p) \/ LoopExitStop(p)
          \/ LoopSeccompStop(p) \/ LoopSeccompWaits(p)
          \/ LoopSignalStop(p) \/ LoopSyscallStop(p)
    \/ DirHandlerReturns \/ ChildHandlerWait \/ ChildHandlerWait2

Next == Bootstrap \/ Attach \/ Kernel \/ EventLoop

Spec == Init /\ [][Next]_vars

\* every process that can take a step eventually does: the kernel schedules
\* the bootstrap, the tracer and the traced processes, and every traced
\* process eventually terminates
FairSpec == Spec /\ WF_vars(Next)

(***************************************************************************)
(* ReadArgumentStringAtAddr byte by byte (lines 379-419): tracee memory is *)
(* a sequence of bytes, mapped from address 1 to its length; a peek reads  *)
(* sizeof(long) bytes as one long.                                         *)
(***************************************************************************)
SizeofLong == 8
\* words of memory a string may span
MaxReadWords == 2

\* the long -1: every byte 0xFF
MinusOneWord == [i \in 1..SizeofLong |-> 255]

\* the words memory is made of: "/aaaaaaa", "aa\0aaaaa", eight 0xFF bytes,
\* seven 0xFF bytes and an "a", eight NUL bytes
MemoryWords ==
    { <<47, 97, 97, 97, 97, 97, 97, 97>>, <<97, 97, 0, 97, 97, 97, 97, 97>>,
      MinusOneWord, <<255, 255, 255, 255, 255, 255, 255, 97>>,
      [i \in 1..SizeofLong |-> 0] }

RECURSIVE Concat(_)
Concat(words) == IF words = <<>> THEN <<>> ELSE Head(words) \o Concat(Tail(words))

Memories == { Concat(ws) : ws \in [1..MaxReadWords -> MemoryWords] }

\* ptrace(PTRACE_PEEKTEXT, m_traceePid, addr, NULL): the word at addr, or -1
\* with errno set when a byte of it is not mapped
PeekText(mem, addr) ==
    IF addr >= 1 /\ addr + SizeofLong - 1 <= Len(mem)
    THEN [fault |-> FALSE, word |-> SubSeq(mem, addr, addr + SizeofLong - 1)]
    ELSE [fault |-> TRUE, word |-> MinusOneWord]

\* the for loop over the bytes of one word (lines 399-410)
RECURSIVE ScanWord(_, _, _, _, _)
ScanWord(word, i, argument, nullTerminated, length) ==
    IF i > SizeofLong THEN [argument |-> argument, finishedReadingArgument |-> FALSE]
    ELSE IF (nullTerminated /\ word[i] = 0) \/ (length > 0 /\ Len(argument) = length)
    THEN [argument |-> argument, finishedReadingArgument |-> TRUE]
    ELSE ScanWord(word, i + 1, Append(argument, word[i]), nullTerminated, length)

\* one iteration of the while loop (lines 385-416)
ReadIteration ==
    /\ reading.pc = "peek"
    /\ LET addrMemoryLocation == PeekText(reading.mem, reading.addr)
       IN  IF addrMemoryLocation.word = MinusOneWord
           THEN reading' = [reading EXCEPT !.pc = "returned",
                                           !.faulted = addrMemoryLocation.fault]
           ELSE LET scan == ScanWord(addrMemoryLocation.word, 1, reading.argument,
                                     reading.nullTerminated, reading.length)
                IN  reading' = [reading EXCEPT
                                  !.addr = @ + SizeofLong,
                                  !.argument = scan.argument,
                                  !.pc = IF scan.finishedReadingArgument THEN "returned"
                                         ELSE "peek"]
    /\ UNCHANGED programVars

\* the calls: null-terminated (every call of the handlers), and counted
ReadModes ==
    { [nullTerminated |-> TRUE, length |-> 0], [nullTerminated |-> FALSE, length |-> 3],
      [nullTerminated |-> FALSE, length |-> SizeofLong + 2] }

InitRead ==
    /\ InitProgram
    /\ \E mem \in Memories, start \in {1, 4}, mode \in ReadModes :
          reading = [ pc |-> "peek", mem |-> mem, start |-> start,
                      nullTerminated |-> mode.nullTerminated, length |-> mode.length,
                      addr |-> start, argument |-> <<>>, faulted |-> FALSE ]

NextRead == ReadIteration

ReadSpec == InitRead /\ [][NextRead]_vars

(***************************************************************************)
(* Properties.                                                             *)
(***************************************************************************)
\* the sink calls a step adds
NewEvents == SubSeq(events', Len(events) + 1, Len(events'))

\* bit b (a power of two) of a non-negative flags word
HasBit(flags, b) == (flags \div b) % 2 = 1

\* C1: at every classifier stop exactly one handler is dispatched, the handler
\* of the syscall number read from orig_rax, for every number the filter
\* surfaces (renameat2 included).
C1_OneDispatchPerClassifierStop ==
    (dispatch # NoDispatch /\ Surfaced(dispatch.nr))
        => dispatch.handlers = << dispatch.nr >>

\* C2: the bootstrap goes on to the filter installation and the image
\* replacement only after the tracer has posted the latch, which it does only
\* after seize, interrupt and resume; the image never runs un-attached.
C2_ImageOnlyAfterAttach ==
    /\ bpc \in {"no_new_privs", "set_seccomp", "execvpe", "in_exec", "image", "returned"}
          => /\ tpc \in {"loop", "hwait", "hwait2", "exit0"}
             /\ waitResult = 0
    /\ (bpc \in {"execvpe", "in_exec", "image"} /\ proc[Root].phase \in LivePhases)
          => /\ attached
             /\ tpc \in {"loop", "hwait", "hwait2"}

C2_Witness ==
    bpc = "image" /\ proc[Root].phase = "user" /\ attached /\ tpc = "loop"

\* C3: an exec handled for a pid without a table entry emits one synthetic
\* NOTIFY_FORK for that pid with the cache disabled, appends (pid, exe path)
\* to the table, and then emits exactly one exec event.
C3_VforkDiscovery ==
    [][ \A p \in Pids :
          (LoopSeccompStop(p) /\ proc[p].sys.nr \in ExecHandlers /\ ~InTable(m_traceeTable, p))
             => LET new == NewEvents
                IN  /\ Len(new) >= 2
                    /\ new[1].kind = "NOTIFY_FORK" /\ new[1].pid = p /\ new[1].cpid = p
                    /\ new[1].cache = "false"
                    /\ new[2].fn = "report_exec" /\ new[2].pid = p
                    /\ Cardinality({ i \in DOMAIN new : new[i].kind = "NOTIFY_FORK" }) = 1
                    /\ Cardinality({ i \in DOMAIN new : new[i].fn = "report_exec" }) = 1
                    /\ m_traceeTable' = Append(m_traceeTable, << p, new[2].path >>) ]_vars

C3_Witness ==
    \E i \in DOMAIN events :
       /\ events[i].kind = "NOTIFY_FORK" /\ events[i].syscall = "vfork"
       /\ i < Len(events) /\ events[i + 1].fn = "report_exec"
       /\ events[i + 1].pid = events[i].pid /\ events[i].pid # Root

\* C4: right after a NOTIFY_FORK event and its handler the table holds the
\* child pid of the event; right after an exit event the table holds no entry
\* of that pid.
C4_TableFollowsForkAndExit ==
    [][ \A i \in DOMAIN NewEvents :
          /\ NewEvents[i].kind = "NOTIFY_FORK" => InTable(m_traceeTable', NewEvents[i].cpid)
          /\ NewEvents[i].kind = "EXIT" => ~InTable(m_traceeTable', NewEvents[i].pid) ]_vars

C4_Witness ==
    /\ \E i \in DOMAIN events :
          /\ events[i].kind = "NOTIFY_FORK" /\ events[i].syscall \in {"fork", "clone"}
          /\ InTable(m_traceeTable, events[i].cpid)
    /\ \E j \in DOMAIN events : events[j].kind = "EXIT" /\ ~InTable(m_traceeTable, events[j].pid)

\* C5: after a successful attach (the bootstrap got past the latch and
\* replaced its image), every pid that was in the process table or had a
\* handler dispatched gets an exit event; stated on the finished run: when the
\* tracer ends with no descendant left, no such pid is without its exit event.
C5_ExitEventForEveryTracee ==
    (tpc = "exit0" /\ bpc = "image")
       => \A p \in Pids :
             (InTable(m_traceeTable, p) \/ \E i \in DOMAIN events : events[i].pid = p)
                => \E j \in DOMAIN events : events[j].kind = "EXIT" /\ events[j].pid = p

\* C6: the error code of a mkdir, mkdirat or rmdir event is 0 exactly when
\* the value read from the return register is 0.
C6_ErrorZeroIffReturnZero ==
    [][ DirHandlerReturns
          => (events'[Len(events')].error = 0 <=> ReadArgumentLong(m_traceePid, 0) = 0) ]_vars

\* C7: a mkdir, mkdirat or rmdir yields exactly one event (NOTIFY_CREATE, or
\* NOTIFY_UNLINK for rmdir, with directory mode), emitted after the syscall has
\* executed in the tracee and carrying the value of its return register.
C7_DirEventAfterSyscallRan ==
    [][ DirHandlerReturns
          => LET new == NewEvents
                 t == proc[m_traceePid]
             IN  /\ Len(new) = 1
                 /\ new[1].kind = (IF hctx.syscall = "rmdir" THEN "NOTIFY_UNLINK" ELSE "NOTIFY_CREATE")
                 /\ new[1].mode = S_IFDIR
                 /\ t.ran = hctx.seq
                 /\ t.phase = "sysexit_stop"
                 /\ new[1].error = GetErrnoOf(t.rax) ]_vars

\* C8: the events of one tracee reach the sink in the order in which the
\* tracee issued their syscalls: an event is emitted while its tracee is
\* stopped in the syscall the event is about, also when stops of other tracees
\* are pending during a handler's wait; and an event handled at the classifier
\* stop is emitted before that syscall has executed.
C8_ProgramOrder ==
    /\ [](\A i, j \in DOMAIN events :
             (i < j /\ events[i].pid = events[j].pid) => events[i].seq <= events[j].seq)
    /\ [][ \A i \in DOMAIN NewEvents :
             LET e == NewEvents[i]
                 t == proc[e.pid]
             IN  /\ e.pid \in Pids
                 /\ t.held
                 /\ e.seq = t.seq
                 /\ (tpc = "loop" /\ e.kind # "EXIT") => (t.phase = "seccomp_stop" /\ t.ran < e.seq)
         ]_vars

\* two tracees have events at the sink, interleaved, one of them emitted by a
\* handler that waited while the other tracee had a stop pending
C8_Witness ==
    /\ \E i, j, k \in DOMAIN events :
          /\ i < j /\ j < k
          /\ events[i].pid = events[k].pid /\ events[j].pid # events[i].pid
          /\ events[i].seq < events[k].seq
    /\ \E i \in DOMAIN events : events[i].syscall \in DirHandlers

\* the flags ReportOpen is given by the handler of an open-family syscall
OpenFlagsOf(inv) ==
    CASE inv.nr = "open" -> inv.regs[2]
      [] inv.nr = "openat" -> inv.regs[3]
      [] OTHER -> 577

\* the path the handler of an open-family syscall normalizes
OpenPathOf(inv) ==
    IF inv.nr = "openat"
    THEN normalize_path_at(inv.regs[1], ReadArgumentStringAtAddr(inv.regs[2]))
    ELSE normalize_path(ReadArgumentStringAtAddr(inv.regs[1]))

\* C9: open, openat and creat emit exactly one event; its kind is
\* NOTIFY_CREATE exactly when the normalized path does not exist and the flags
\* hold O_CREAT or O_TRUNC, creat counting as O_CREAT|O_WRONLY|O_TRUNC.
C9_OpenCreateClassification ==
    [][ \A p \in Pids :
          (LoopSeccompStop(p) /\ proc[p].sys.nr \in OpenHandlers)
             => LET new == NewEvents
                    flags == OpenFlagsOf(proc[p].sys)
                    path == OpenPathOf(proc[p].sys)
                IN  /\ Len(new) = 1
                    /\ new[1].pid = p /\ new[1].path = path
                    /\ new[1].kind = "NOTIFY_CREATE"
                          <=> (get_mode(path) = 0 /\ (HasBit(flags, 64) \/ HasBit(flags, 512))) ]_vars

C9_Witness ==
    /\ dispatch.nr = "open" /\ proc[dispatch.pid].seq = dispatch.seq
    /\ proc[dispatch.pid].sys.regs[2] = O_TRUNC
    /\ events # <<>>
    /\ events[Len(events)].syscall = "open" /\ events[Len(events)].kind = "NOTIFY_CREATE"

\* C10: for open, openat and creat on a path that exists, opened with access
\* mode O_WRONLY or O_RDWR, the event kind is NOTIFY_WRITE; the kind is
\* NOTIFY_OPEN only when neither the create nor this write condition holds.
C10_OpenWriteClassification ==
    [][ \A p \in Pids :
          (LoopSeccompStop(p) /\ proc[p].sys.nr \in OpenHandlers)
             => LET new == NewEvents
                    flags == OpenFlagsOf(proc[p].sys)
                    exists == get_mode(OpenPathOf(proc[p].sys)) # 0
                    isCreate == ~exists /\ (HasBit(flags, 64) \/ HasBit(flags, 512))
                    isWrite == exists /\ (flags % 4) \in {1, 2}
                IN  /\ isWrite => new[1].kind = "NOTIFY_WRITE"
                    /\ new[1].kind = "NOTIFY_OPEN" => (~isCreate /\ ~isWrite) ]_vars


\* the rename family, and the normalized source and destination an
\* invocation of it names
RenameFamily == {"rename", "renameat", "renameat2"}

RenameSourceOf(inv) ==
    IF inv.nr = "rename" THEN normalize_path(ReadArgumentStringAtAddr(inv.regs[1]))
    ELSE normalize_path_at(inv.regs[1], ReadArgumentStringAtAddr(inv.regs[2]))

RenameDestinationOf(inv) ==
    IF inv.nr = "rename" THEN normalize_path(ReadArgumentStringAtAddr(inv.regs[2]))
    ELSE normalize_path_at(inv.regs[3], ReadArgumentStringAtAddr(inv.regs[4]))

\* C11: a rename, renameat or renameat2 whose source is a directory of N
\* enumerated entries emits exactly N pairs: for each entry, in enumeration
\* order, NOTIFY_UNLINK at the old path, then NOTIFY_CREATE at the path with
\* the old root replaced by the new root.
C11_RenameDirectoryPairs ==
    [][ \A p \in Pids :
          (/\ LoopSeccompStop(p)
           /\ proc[p].sys.nr \in RenameFamily
           /\ get_mode(RenameSourceOf(proc[p].sys)) = S_IFDIR)
             => LET oldRoot == RenameSourceOf(proc[p].sys)
                    newRoot == RenameDestinationOf(proc[p].sys)
                    entries == EnumerateDirectory(oldRoot)
                    new == NewEvents
                IN  /\ Len(new) = 2 * Len(entries)
                    /\ \A i \in DOMAIN entries :
                          /\ new[2 * i - 1].kind = "NOTIFY_UNLINK"
                          /\ new[2 * i - 1].path = entries[i]
                          /\ new[2 * i].kind = "NOTIFY_CREATE"
                          /\ new[2 * i].path = ReplacePrefix(entries[i], Len(oldRoot), newRoot) ]_vars

\* C12: a rename or renameat whose source is not a directory emits exactly
\* two events, NOTIFY_UNLINK for the normalized source and then NOTIFY_CREATE
\* for the normalized destination, whether or not the destination exists.
C12_RenameFileTwoEvents ==
    [][ \A p \in Pids :
          (/\ LoopSeccompStop(p)
           /\ proc[p].sys.nr \in {"rename", "renameat"}
           /\ get_mode(RenameSourceOf(proc[p].sys)) # S_IFDIR)
             => LET new == NewEvents
                IN  /\ Len(new) = 2
                    /\ new[1].kind = "NOTIFY_UNLINK"
                    /\ new[1].path = RenameSourceOf(proc[p].sys)
                    /\ new[2].kind = "NOTIFY_CREATE"
                    /\ new[2].path = RenameDestinationOf(proc[p].sys) ]_vars

\* the handlers whose events must not be deduplicated by the sink's cache
UncachedSyscalls == {"mkdir", "mkdirat", "rmdir", "fork", "clone", "vfork"} \cup RenameFamily

\* C13: every event of the mkdir, mkdirat, rmdir, rename-family and fork
\* handlers, and the synthetic vfork fork event, is passed to the sink with
\* checkCache = false.
C13_CacheDisabled ==
    \A i \in DOMAIN events :
       events[i].syscall \in UncachedSyscalls => events[i].cache = "false"

\* the path argument of an unlink or unlinkat invocation
UnlinkPathOf(inv) == ReadArgumentStringAtAddr(inv.regs[IF inv.nr = "unlink" THEN 1 ELSE 2])

\* C14: an unlink or unlinkat whose path argument is the empty string emits no
\* event, whatever dirfd and flags are.
C14_EmptyPathUnlinkSilent ==
    [][ \A p \in Pids :
          (/\ LoopSeccompStop(p)
           /\ proc[p].sys.nr \in {"unlink", "unlinkat"}
           /\ UnlinkPathOf(proc[p].sys) = <<>>)
             => /\ dispatch'.handlers = << proc[p].sys.nr >>
                /\ NewEvents = <<>> ]_vars

\* an unlinkat of the empty path against a real directory descriptor, with
\* AT_REMOVEDIR, has been handled and has left no event
C14_Witness ==
    /\ dispatch.nr = "unlinkat" /\ dispatch.handlers = <<"unlinkat">>
    /\ LET inv == proc[dispatch.pid].sys
       IN  /\ inv.nr = "unlinkat" /\ proc[dispatch.pid].seq = dispatch.seq
           /\ inv.regs[1] = 3 /\ UnlinkPathOf(inv) = <<>> /\ inv.regs[3] = AT_REMOVEDIR
    /\ \A i \in DOMAIN events : events[i].syscall # "unlinkat"

\* C15: a readlinkat whose fd argument resolves through fd_to_path to a path
\* that does not begin with "/" makes no report call.
C15_ReadlinkatNonFileSilent ==
    [][ \A p \in Pids :
          (/\ LoopSeccompStop(p)
           /\ proc[p].sys.nr = "readlinkat"
           /\ ~IsAbsolute(fd_to_path(proc[p].sys.regs[1])))
             => NewEvents = <<>> ]_vars

\* the descriptor an fd-keyed handler reports: the output descriptor of
\* copy_file_range is its third argument, every other one is the first
ReportedFdOf(inv) == inv.regs[IF inv.nr = "copy_file_range" THEN 3 ELSE 1]

\* C16: an fd-keyed handler emits exactly one event, at the resolved path,
\* when its descriptor resolves to a path that begins with "/", and no event
\* otherwise; sendfile resolves argument 1 and copy_file_range argument 3.
C16_FdHandlersReportFilesOnly ==
    [][ \A p \in Pids :
          (LoopSeccompStop(p) /\ proc[p].sys.nr \in FdHandlers)
             => LET path == fd_to_path(ReportedFdOf(proc[p].sys))
                    new == NewEvents
                IN  IF IsAbsolute(path)
                    THEN /\ Len(new) = 1
                         /\ new[1].syscall = proc[p].sys.nr
                         /\ new[1].path = path
                    ELSE new = <<>> ]_vars

\* a copy_file_range from a pipe into the file /a has been reported at /a
C16_Witness ==
    /\ dispatch.nr = "copy_file_range" /\ dispatch.handlers = <<"copy_file_range">>
    /\ LET inv == proc[dispatch.pid].sys
       IN  /\ inv.nr = "copy_file_range" /\ proc[dispatch.pid].seq = dispatch.seq
           /\ inv.regs[1] = PipeFd /\ inv.regs[3] = 4
    /\ events # <<>>
    /\ events[Len(events)].syscall = "copy_file_range"
    /\ events[Len(events)].kind = "NOTIFY_WRITE"
    /\ events[Len(events)].path = <<"/", "a">>

\* the surfaced syscall set
SurfacedSyscallSet ==
    { "execve", "execveat", "stat", "lstat", "fstat", "newfstatat", "access",
      "faccessat", "creat", "open", "openat", "write", "writev", "pwritev", "pwritev2",
      "pwrite64", "truncate", "ftruncate", "rmdir", "rename", "renameat", "renameat2",
      "link", "linkat", "unlink", "unlinkat", "symlink", "symlinkat", "readlink",
      "readlinkat", "utime", "utimes", "utimensat", "futimesat", "mkdir", "mkdirat",
      "mknod", "mknodat", "chmod", "fchmod", "fchmodat", "chown", "fchown", "lchown",
      "fchownat", "sendfile", "copy_file_range", "name_to_handle_at", "fork", "clone" }

\* C17: the filter returns SECCOMP_RET_TRACE for a syscall number iff it is one
\* of the 50 surfaced syscalls, and SECCOMP_RET_ALLOW for every other number
\* (vfork among them); its table is 50 equality tests, one per surfaced
\* syscall.  So a process entering a syscall stops for the tracer iff the
\* syscall is surfaced.
C17_FilterSurfacesExactlyTheSet ==
    [][ /\ Len(FilterTable) = 50
        /\ { FilterTable[i] : i \in DOMAIN FilterTable } = SurfacedSyscallSet
        /\ RunFilter("vfork", 1) = "SECCOMP_RET_ALLOW"
        /\ \A inv \in menu :
              RunFilter(inv.nr, 1) = IF inv.nr \in SurfacedSyscallSet THEN "SECCOMP_RET_TRACE"
                                     ELSE "SECCOMP_RET_ALLOW"
        /\ \A p \in Pids :
              /\ (proc[p].phase \in {"user", "entry_stop"} /\ proc'[p].phase = "kernel")
                    => proc'[p].sys.nr \notin SurfacedSyscallSet
              /\ (proc[p].phase \in {"user", "entry_stop"} /\ proc'[p].phase = "seccomp_stop")
                    => proc'[p].sys.nr \in SurfacedSyscallSet ]_vars

\* a clone, the last entry of the table, has stopped its caller for the tracer
C17_Witness ==
    \E p \in Pids : proc[p].phase = "seccomp_stop" /\ proc[p].sys.nr = "clone"

\* what the tracer may not touch of a process: the syscall number and the
\* argument registers, rax, and what the process has run
TraceeOwned(pr) == << pr.sys, pr.rax, pr.seq, pr.ran, pr.parent, pr.vf, pr.killed >>

\* C18: the tracer only observes.  No step of the attach sequence, of the event
\* loop or of a handler changes a register of a tracee, and while a handler
\* waits for its tracee the argument registers stay as they were at the
\* classifier stop, so after the handler they still hold the syscall's arguments.
C18_TracerOnlyObserves ==
    [][ /\ (Attach \/ EventLoop)
              => \A p \in Pids : TraceeOwned(proc'[p]) = TraceeOwned(proc[p])
        /\ (tpc \in {"hwait", "hwait2"})
              => /\ proc'[m_traceePid].sys = proc[m_traceePid].sys
                 /\ proc[m_traceePid].sys.nr = hctx.syscall ]_vars

\* a handler that waited (mkdir) has reported after the syscall ran, and the
\* tracee still holds the mkdir arguments
C18_Witness ==
    /\ dispatch.nr = "mkdir" /\ tpc = "loop"
    /\ proc[dispatch.pid].sys = MkdirCall
    /\ proc[dispatch.pid].ran = dispatch.seq
    /\ events # <<>> /\ events[Len(events)].syscall = "mkdir"

\* C19: when the latch has not been posted the bootstrap's bounded wait fails,
\* and from then on the bootstrap only closes the latch and ends with
\* real__exit(-1): it does not drop privileges, install the filter or replace
\* its image.
C19_TimeoutFailsBootstrap ==
    [][ /\ (BootSemWait /\ sem.count[sem.bsem] = 0) => waitResult' = -1
        /\ waitResult' = -1
              => /\ bpc' \in {"sem_close", "exited"}
                 /\ ~FilterInstalled'
                 /\ bpc' = "exited" => proc'[Root].phase \notin {"user", "kernel"}
        /\ (BootSemClose /\ waitResult = -1) => bpc' = "exited" ]_vars

\* the tracer failed before it posted, the wait timed out and the bootstrap ended
C19_Witness ==
    /\ tpc = "exitfail" /\ sem.tsem = 0 /\ sem.count = <<0, 0>>
    /\ waitResult = -1 /\ bpc = "exited"
    /\ proc[Root].phase = "reaped"

\* the bootstrap has left the part of ExecuteWithPTraceSandbox that holds the latch
BootPastLatch ==
    bpc \in {"exited", "no_new_privs", "set_seccomp", "execvpe", "in_exec", "image", "returned"}

\* C20: once the bootstrap has created the latch it closes and unlinks it
\* before it exits or goes on to the privilege drop, on every path: wait
\* success, wait timeout, and a failure between the creation and the wait.
C20_LatchReleasedOnEveryPath ==
    BootPastLatch => sem.bsem = 0

\* the tracer has finished its sem_open, sem_post and sem_close of the latch
TracerPastLatch == tpc \in {"loop", "hwait", "hwait2", "exit0"}

\* the bootstrap has waited on the latch, closed it and unlinked it
BootLatchStepsDone ==
    \/ bpc \in {"no_new_privs", "set_seccomp", "execvpe", "in_exec", "image", "returned"}
    \/ bpc = "exited" /\ waitResult = -1

\* C21: once the bootstrap has finished its latch steps (its handle closed and
\* the name unlinked) and the tracer has finished its open, post and close, no
\* semaphore is linked under the latch's name, in every interleaving of the two.
C21_NoLatchRemains ==
    (BootLatchStepsDone /\ TracerPastLatch) => sem.linked = 0

\* the steps of ExecuteWithPTraceSandbox in program order, and what may
\* follow each of them
BootOrder ==
    [ sem_open |-> {"clock", "exited"}, clock |-> {"sem_wait", "exited"},
      sem_wait |-> {"sem_close"}, sem_close |-> {"no_new_privs", "exited"},
      no_new_privs |-> {"set_seccomp", "exited"}, set_seccomp |-> {"execvpe", "exited"},
      execvpe |-> {"in_exec"}, in_exec |-> {"image", "returned"},
      image |-> {}, exited |-> {}, returned |-> {} ]

\* C22: ExecuteWithPTraceSandbox returns only when the execve of real_execvpe
\* has failed, with that call's result; every earlier failure ends the process
\* by real__exit(-1) before the execve is entered; the steps follow one another
\* in the order latch create, wait, close and unlink, privilege drop, filter
\* install, image replace, the image replace directly after the filter install.
C22_ReturnsOnlyWhenExecFails ==
    [][ /\ bpc' # bpc => bpc' \in BootOrder[bpc]
        /\ (bpc' = "returned" /\ bpc # "returned")
              => /\ bpc = "in_exec"
                 /\ proc'[Root].rax < 0 /\ proc'[Root].sys.nr = "execve"
        /\ (bpc' = "exited" /\ bpc # "exited")
              => /\ proc'[Root].phase \in {"exit_stop", "reaped"}
                 /\ proc'[Root].seq = 0
        /\ (bpc' = "in_exec" /\ bpc # "in_exec")
              => /\ bpc = "execvpe" /\ waitResult = 0 /\ sem.bsem = 0
                 /\ proc'[Root].sys.nr = "execve" ]_vars

\* the execve failed and ExecuteWithPTraceSandbox has returned
C22_Witness ==
    /\ bpc = "returned"
    /\ proc[Root].sys.nr = "execve" /\ proc[Root].rax = -2 /\ proc[Root].ran = 1

\* a wait status that is neither exited, signaled nor stopped
ContinuedStatus == [kind |-> "CONTINUED", stopsig |-> 0, event |-> "NONE"]

C24_AttachFailureLeavesNothing ==
    [][ /\ (tpc \in {"seize", "interrupt"} /\ tpc' \notin {"interrupt", "resume"} /\ tpc' # tpc)
              => /\ tpc' = "exitfail"
                 /\ m_traceeTable' = <<>> /\ m_traceePid' = 0
                 /\ events' = <<>>
                 /\ sem' = sem /\ sem.tsem = 0 /\ sem.count = <<0, 0>>
                 /\ ~attached'
        /\ (tpc' = "exitfail" /\ m_traceePid' = 0)
              => /\ m_traceeTable' = <<>> /\ events' = <<>> /\ sem'.count = <<0, 0>>
                 /\ bpc' \in {"sem_open", "clock", "sem_wait", "sem_close", "exited"}
                 /\ bpc' = "sem_close" => waitResult' = -1 ]_vars

\* the interrupt failed, and the bootstrap has timed out on the latch
C24_Witness ==
    /\ tpc = "exitfail" /\ m_traceePid = 0 /\ m_traceeTable = <<>> /\ events = <<>>
    /\ proc[Root].intr = FALSE
    /\ waitResult = -1 /\ bpc = "exited"

\* C25: the process table holds at most one entry per pid in every reachable
\* state, after attach, fork and clone handling (failed and repeated calls
\* included), vfork discovery at exec, exec and exit-event stops.
C25_OneEntryPerPid ==
    \A i, j \in DOMAIN m_traceeTable :
       m_traceeTable[i][1] = m_traceeTable[j][1] => i = j

\* C26: whenever a handler is dispatched, the pid whose stop is being handled
\* has an entry in the process table; the one exception is the exec handler
\* running for a child created by vfork.  In particular every non-exec handler
\* finds its pid in the table.
C26_HandlerPidInTable ==
    [][ \A p \in Pids :
          ((LoopSeccompStop(p) \/ LoopSeccompWaits(p))
              /\ HandleSysCallGeneric(proc[p].sys.nr) # <<>>)
             => \/ InTable(m_traceeTable, p)
                \/ proc[p].sys.nr \in ExecHandlers /\ proc[p].vf ]_vars

\* C27: only exit-event stops and classifier stops change the process table
\* or emit events.  An exited or signaled status, a PTRACE_EVENT_VFORK stop, a
\* signal-delivery stop and every other stop (the syscall-entry and
\* syscall-exit stops among them) leave the table alone, dispatch no handler,
\* emit no event and start no pid-specific wait.
C27_OtherStopsChangeNothing ==
    [][ /\ \A p \in Pids :
              (LoopTerminated(p) \/ LoopVforkStop(p) \/ LoopSignalStop(p) \/ LoopSyscallStop(p))
                 => /\ UNCHANGED << m_traceeTable, events, dispatch, hctx >>
                    /\ tpc' = "loop"
        /\ (tpc = "loop" /\ (m_traceeTable' # m_traceeTable \/ events' # events
                             \/ dispatch' # dispatch \/ tpc' \in {"hwait", "hwait2"}))
              => Classify(WaitStatus(m_traceePid')) \in {"exit", "seccomp"} ]_vars

\* the loop has resumed a vfork parent from its PTRACE_EVENT_VFORK stop: the
\* child has no entry and no fork event has been emitted
C27_Witness ==
    /\ tpc = "loop" /\ m_traceePid = Root
    /\ proc[Root].phase = "vfork_stop" /\ ~proc[Root].held
    /\ proc[2].parent = Root /\ proc[2].vf
    /\ ~InTable(m_traceeTable, 2)
    /\ \A i \in DOMAIN events : events[i].kind # "NOTIFY_FORK"

\* C28: at the classifier stop of a surfaced syscall number without a case in
\* the switch, HandleSysCallGeneric emits no event and leaves the process table
\* unchanged; the loop resumes the tracee and goes on waiting.
C28_NoCaseNoEffect ==
    [][ \A p \in Pids :
          (/\ LoopSeccompStop(p)
           /\ Surfaced(proc[p].sys.nr)
           /\ proc[p].sys.nr \notin DispatchCases)
             => /\ events' = events /\ m_traceeTable' = m_traceeTable
                /\ tpc' = "loop" /\ hctx' = hctx
                /\ ~proc'[p].held /\ ~proc'[p].stepping ]_vars

\* a renameat2 was surfaced, nothing was dispatched, and the call has run
C28_Witness ==
    /\ dispatch.nr = "renameat2" /\ dispatch.handlers = <<>>
    /\ tpc = "loop"
    /\ proc[dispatch.pid].sys.nr = "renameat2"
    /\ proc[dispatch.pid].ran = dispatch.seq
    /\ proc[dispatch.pid].phase = "user"
    /\ \A i \in DOMAIN events : events[i].seq # dispatch.seq

\* C29: every unlinkat with a non-empty path emits exactly one NOTIFY_UNLINK
\* event, for every dirfd, AT_FDCWD included; the path is resolved without
\* following symlinks unless AT_REMOVEDIR is set.
C29_UnlinkatOneEvent ==
    [][ \A p \in Pids :
          (/\ LoopSeccompStop(p)
           /\ proc[p].sys.nr = "unlinkat"
           /\ UnlinkPathOf(proc[p].sys) # <<>>)
             => LET new == NewEvents
                    flags == proc[p].sys.regs[3]
                IN  /\ Len(new) = 1
                    /\ new[1].kind = "NOTIFY_UNLINK"
                    /\ new[1].path = UnlinkPathOf(proc[p].sys)
                    /\ new[1].dirfd = proc[p].sys.regs[1]
                    /\ new[1].oflags = IF HasBit(flags, AT_REMOVEDIR) THEN 0 ELSE O_NOFOLLOW ]_vars

\* C30: when the fork/clone handler finishes, the one event it emits and the
\* table entry it appends carry the exe_path the parent's entry holds at that
\* moment, the sink's program path only when the parent has no entry; the
\* event has pid = parent and child_pid = the value read from the return
\* register.
C30_ForkInheritsExePath ==
    [][ (tpc \in {"hwait", "hwait2"} /\ hctx.syscall \in {"fork", "clone"} /\ tpc' = "loop")
          => LET parent == m_traceePid
                 entry == FindProcess(m_traceeTable, parent)
                 exePath == IF entry # 0 THEN m_traceeTable[entry][2] ELSE GetProgramPath
                 childpid == proc[parent].rax
                 new == NewEvents
             IN  /\ Len(new) = 1
                 /\ new[1].kind = "NOTIFY_FORK"
                 /\ new[1].pid = parent
                 /\ new[1].cpid = childpid
                 /\ new[1].path = exePath
                 /\ m_traceeTable' = Append(m_traceeTable, <<childpid, exePath>>) ]_vars

\* a fork of a parent whose entry no longer holds the program path was reported
C30_Witness ==
    /\ events # <<>>
    /\ LET e == events[Len(events)]
       IN  /\ e.kind = "NOTIFY_FORK" /\ e.syscall \in {"fork", "clone"}
           /\ e.path # GetProgramPath
           /\ e.cpid > 0
           /\ m_traceeTable # <<>>
           /\ m_traceeTable[Len(m_traceeTable)] = <<e.cpid, e.path>>

\* a step of the loop that handles an exec at its classifier stop
ExecHandled(p) ==
    LoopSeccompStop(p) /\ proc[p].sys.nr \in ExecHandlers

\* C31: an exec handled for a pid that has a table entry sets the exe path of
\* that entry to the exec path and changes nothing else of the table (number
\* of entries, pids, the other entries' paths), and emits no fork event.  No
\* other step changes the exe path of an existing entry: it leaves the table,
\* appends one entry to it, or removes the entries of the stopped pid.
C31_ExecUpdatesOnlyItsEntry ==
    [][ /\ \A p \in Pids :
              (ExecHandled(p) /\ InTable(m_traceeTable, p))
                 => LET i == FindProcess(m_traceeTable, p)
                    IN  /\ m_traceeTable' =
                              [m_traceeTable EXCEPT ![i] = <<p, ExecPath(proc[p].sys.nr, p)>>]
                        /\ \A k \in DOMAIN NewEvents : NewEvents[k].kind # "NOTIFY_FORK"
        /\ (~ \E p \in Pids : ExecHandled(p))
              => \/ m_traceeTable' = m_traceeTable
                 \/ /\ Len(m_traceeTable') = Len(m_traceeTable) + 1
                    /\ SubSeq(m_traceeTable', 1, Len(m_traceeTable)) = m_traceeTable
                 \/ m_traceeTable' = RemovePid(m_traceeTable, m_traceePid') ]_vars

\* the target has replaced its image by execveat: the one entry of the table,
\* its own, holds the new path, and no fork event was emitted
C31_Witness ==
    /\ dispatch.nr = "execveat" /\ dispatch.pid = Root
    /\ m_traceeTable = << <<Root, <<"/", "d", "rel">>>> >>
    /\ \E i \in DOMAIN events : events[i].fn = "report_exec" /\ events[i].path = <<"/", "d", "rel">>
    /\ \A i \in DOMAIN events : events[i].kind # "NOTIFY_FORK"

\* the events whose stops the loop tells from a signal stop
LoopEvents == {"PTRACE_EVENT_VFORK", "PTRACE_EVENT_EXIT", "PTRACE_EVENT_SECCOMP"}

\* C32: when the loop resumes the tracee whose stop it has handled, a stop by
\* a signal with bit 7 clear that is no VFORK, EXIT or classifier event stop is
\* resumed with that stop signal passed on; every other branch passes no
\* signal; a classifier stop is resumed with PTRACE_CONT (no stop at the
\* syscall exit), every other stop with PTRACE_SYSCALL.
C32_ResumeSignals ==
    [][ \A p \in Pids :
          (tpc \in {"loop", "hwait", "hwait2"} /\ tpc' = "loop" /\ proc[p].held /\ ~proc'[p].held)
             => LET status == WaitStatus(p)
                    bySignal == /\ status.kind = "STOPPED"
                                /\ ~HasBit(status.stopsig, SYSGOOD)
                                /\ ~(status.stopsig = SIGTRAP /\ status.event \in LoopEvents)
                IN  /\ p = m_traceePid'
                    /\ IF tpc = "loop" /\ bySignal
                       THEN proc'[p].sig = status.stopsig /\ proc'[p].sig # 0
                       ELSE proc'[p].sig = 0
                    /\ proc'[p].stepping
                          <=> ~(tpc # "loop" \/ IsEventStop(status, "PTRACE_EVENT_SECCOMP")) ]_vars

\* the loop has resumed a new child from its first stop, a stop by SIGTRAP
\* that is none of the three events, and has passed SIGTRAP on
C32_Witness ==
    /\ tpc = "loop" /\ m_traceePid = 2
    /\ proc[2].phase = "trap_stop" /\ ~proc[2].held
    /\ proc[2].sig = SIGTRAP /\ proc[2].stepping

\* C33: no handler reads an argument index above 6.  Every index the handler
\* dispatched at a classifier stop passes to ReadArgumentLong,
\* ReadArgumentString and ReadArgumentVector is in 0..6, index 0 (the return
\* value) only in the handlers that wait for the syscall to return, so neither
\* GetArgumentAddr nor ArgumentIndexToRegister takes its default arm.
C33_ArgumentIndexAtMostSix ==
    [][ \A p \in Pids :
          (LoopSeccompStop(p) \/ LoopSeccompWaits(p))
             => \A k \in DOMAIN dispatch'.handlers :
                   LET handler == dispatch'.handlers[k]
                   IN  /\ ArgumentIndices(handler) \subseteq 0..6
                       /\ 0 \in ArgumentIndices(handler) => handler \in WaitingHandlers
                       /\ \A index \in ArgumentIndices(handler) :
                             /\ GetArgumentAddr(index) # "R15"
                             /\ ArgumentIndexToRegister(index) # "none"
                             /\ GetArgumentAddr(index) = "RAX" <=> index = 0 ]_vars

\* the handlers that read the highest index used, 5 (r8), have been dispatched
C33_Witness ==
    /\ dispatch.handlers = <<"fchownat">>
    /\ 5 \in ArgumentIndices(dispatch.nr)
    /\ GetArgumentAddr(5) = "R8"
    /\ events # <<>> /\ events[Len(events)].syscall = "fchownat"

\* the address of the first NUL byte at or after start, 0 when there is none
FirstNul(mem, start) ==
    IF \E a \in start..Len(mem) : mem[a] = 0
    THEN CHOOSE a \in start..Len(mem) : mem[a] = 0 /\ \A b \in start..(a - 1) : mem[b] # 0
    ELSE 0

\* C34: when no peek has faulted, ReadArgumentStringAtAddr returns, in
\* null-terminated mode, exactly the bytes from the start address up to but
\* excluding the first NUL byte, whatever the bytes are (0xFF included), and
\* in counted mode exactly the first `length` bytes.
C34_ReadStringExact ==
    (reading.pc = "returned" /\ ~reading.faulted)
       => IF reading.nullTerminated
          THEN /\ FirstNul(reading.mem, reading.start) # 0
               /\ reading.argument =
                     SubSeq(reading.mem, reading.start, FirstNul(reading.mem, reading.start) - 1)
          ELSE reading.argument =
                  SubSeq(reading.mem, reading.start, reading.start + reading.length - 1)

\* the handler of the invocation meets a peek failure: its path is not mapped
PathPeekFails(inv) ==
    inv.nr \in {"stat", "mkdir", "execve"} /\ inv.regs[1] \notin DOMAIN TraceeMemory

\* C35: a peek failure while a handler reads a string or the argv array ends
\* that read with what was accumulated (nothing, when the first peek fails)
\* and has no other effect: the handler completes and reports, the tracee is
\* resumed, the table changes only as the handler changes it (exec), and the
\* tracer is back in the loop's wait, or on its way there in the handler's wait.
C35_PeekFailureIsSoft ==
    [][ /\ \A p \in Pids :
              ((LoopSeccompStop(p) \/ LoopSeccompWaits(p)) /\ PathPeekFails(proc[p].sys))
                 => LET nr == proc[p].sys.nr
                        new == NewEvents
                    IN  /\ ReadArgumentString(p, 1) = <<>>
                        /\ dispatch'.handlers = <<nr>>
                        /\ ~proc'[p].held
                        /\ tpc' = IF nr = "mkdir" THEN "hwait" ELSE "loop"
                        /\ nr = "stat" => (Len(new) = 1 /\ new[1].path = <<>>)
                        /\ nr = "stat" => m_traceeTable' = m_traceeTable
                        /\ nr = "mkdir" => (new = <<>> /\ hctx'.path = <<>>
                                            /\ m_traceeTable' = m_traceeTable)
                        /\ nr = "execve" =>
                              /\ \E k \in DOMAIN new : new[k].fn = "report_exec" /\ new[k].path = <<>>
                              /\ reportingArgs =>
                                    \E k \in DOMAIN new : new[k].fn = "report_exec_args"
                                                          /\ new[k].path = <<>>
                              /\ m_traceeTable' =
                                    UpdateTraceeTableForExec(m_traceeTable, <<>>, p, proc[p].seq).table
        /\ (DirHandlerReturns /\ PathPeekFails(proc[m_traceePid].sys))
              => /\ tpc' = "loop" /\ ~proc'[m_traceePid].held
                 /\ Len(NewEvents) = 1 /\ NewEvents[1].path = normalize_path_at(AT_FDCWD, <<>>)
                 /\ m_traceeTable' = m_traceeTable ]_vars

\* a stat of an unmapped path was reported with the empty path, the tracee has
\* run the call, and the tracer waits in the loop
C35_Witness ==
    /\ dispatch.nr = "stat" /\ tpc = "loop"
    /\ proc[dispatch.pid].sys = Invocation("stat", UnmappedAddr, 0, 0, 0, 0, 0)
    /\ proc[dispatch.pid].ran = dispatch.seq /\ proc[dispatch.pid].phase = "user"
    /\ events # <<>> /\ events[Len(events)].syscall = "stat" /\ events[Len(events)].path = <<>>

ChildHandlerDone ==
    tpc \in {"hwait", "hwait2"} /\ hctx.syscall \in {"fork", "clone"} /\ tpc' = "loop"

\* C37: the fork/clone handler emits a NOTIFY_FORK event and appends a table
\* entry only for a real new child: when the return register holds a negative
\* value or 0 it emits nothing and adds nothing, so every pid of the table is
\* the positive pid of a process.
C37_FailedForkEmitsNothing ==
    [][ /\ (ChildHandlerDone /\ proc[m_traceePid].rax <= 0)
              => (NewEvents = <<>> /\ m_traceeTable' = m_traceeTable)
        /\ \A i \in DOMAIN m_traceeTable' : m_traceeTable'[i][1] \in Pids ]_vars

\* a waitpid(m_traceePid, ...) of a handler returns with this step
HandlerWaitReturns == DirHandlerReturns \/ ChildHandlerWait \/ ChildHandlerWait2

\* C38: the pid-specific wait of the mkdir, mkdirat, rmdir, fork and clone
\* handlers consumes only the syscall-exit stop of the syscall being handled,
\* or its fork/clone event stop: an exit-event stop, a signal stop or a
\* termination status of that pid is left for the loop to classify.
C38_HandlerWaitSwallowsNothing ==
    [][ HandlerWaitReturns
          => LET status == WaitStatus(m_traceePid)
             IN  \/ /\ Classify(status) = "syscall"
                    /\ proc[m_traceePid].phase = "sysexit_stop"
                    /\ proc[m_traceePid].ran = hctx.seq
                 \/ /\ hctx.syscall \in {"fork", "clone"}
                    /\ \/ IsEventStop(status, "PTRACE_EVENT_FORK")
                       \/ IsEventStop(status, "PTRACE_EVENT_CLONE") ]_vars

\* the tracer is blocked in wait (the loop) or in waitpid (a handler)
TracerWaits == tpc \in {"loop", "hwait", "hwait2"}

\* C39: no tracee is left stopped by the tracer.  A stop the tracer has
\* received, in the loop's wait or in a handler's waitpid, is resumed before
\* the tracer blocks again, so a tracee in a ptrace-stop always has that stop
\* still to be reported; and while the tracer waits, some process or the
\* tracer can take a step (no deadlock of a stopped tracee and the waiting
\* tracer).
C39_NoTraceeLeftStopped ==
    /\ [](\A p \in Pids : proc[p].held => proc[p].pend)
    /\ [](TracerWaits => ENABLED Next)
    /\ [][ \A p \in Pids :
              (TracerWaits /\ proc[p].held /\ proc[p].pend /\ ~proc'[p].pend)
                 => /\ ~proc'[p].held
                    /\ p = m_traceePid' ]_vars

\* a handler's waitpid has received the fork event stop and then the
\* syscall-exit stop of the parent, and the parent runs again, un-stopped
C39_Witness ==
    /\ tpc = "loop"
    /\ dispatch.nr = "fork" /\ proc[dispatch.pid].ran = dispatch.seq
    /\ proc[dispatch.pid].phase = "user" /\ ~proc[dispatch.pid].held
    /\ proc[dispatch.pid].rax > 0
    /\ events # <<>> /\ events[Len(events)].kind = "NOTIFY_FORK"

\* C40: the rendezvous does not depend on who opens the latch first.  Either
\* sem_open gives the semaphore linked under the name, or links a new one of
\* count 0; the tracer posts once; and a wait of the bootstrap that ends after
\* the tracer's post succeeds, whoever created the latch: the post is not lost.
C40_RendezvousOrderIndependent ==
    /\ [](sem.count[1] + sem.count[2] <= 1)
    /\ [][ /\ (BootSemOpen /\ bpc' = "clock")
                 => /\ sem'.bsem = (IF sem.linked # 0 THEN sem.linked ELSE sem'.linked)
                    /\ sem.linked = 0 => sem'.count[sem'.bsem] = 0
           /\ (AttachSemOpen /\ tpc' = "sem_post")
                 => /\ sem'.tsem = (IF sem.linked # 0 THEN sem.linked ELSE sem'.linked)
                    /\ sem.linked = 0 => sem'.count[sem'.tsem] = 0
           /\ AttachSemPost
                 => /\ sem'.count[sem.tsem] = sem.count[sem.tsem] + 1
                    /\ (bpc \in {"clock", "sem_wait"} => sem.bsem = sem.tsem)
           /\ (BootSemWait /\ TracerPastLatch)
                 => (waitResult' = 0 /\ sem'.count = <<0, 0>>) ]_vars

\* the tracer has created the latch and posted it before the bootstrap has
\* opened it
C40_Witness ==
    /\ bpc = "sem_open" /\ tpc = "loop"
    /\ sem.linked = 1 /\ sem.made = 1 /\ sem.count[1] = 1 /\ sem.bsem = 0
====
